---- MODULE Spec2Model ----
(***************************************************************************)
(* Verification model of the precipitation cleaning service               *)
(* (services/cleaner): 10-minute aggregation, QC, the imputation cascade  *)
(* forecast -> time interpolation -> hour median -> zero fallback, the    *)
(* clamp/emit step, the batch loop over sensors and the clean store.      *)
(*                                                                         *)
(* Numbers.  Floats are fixed-point integers: 1.0 (mm, or one unit of     *)
(* quality) is Scale units, so that every interpolation quotient and      *)
(* every median of the bounded series is exact.  np.nan is the sentinel   *)
(* NaN; every comparison with it is false, as in IEEE arithmetic.         *)
(* Timestamps are minutes since an epoch that lies on an hour boundary.   *)
(*                                                                         *)
(* Configuration.  pipeline.py reads cfg.arima_enabled and                *)
(* cfg.arima_min_train, the fields test_arima.py constructs; cfg is the   *)
(* record of the fields that pipeline.py reads.                           *)
(***************************************************************************)
EXTENDS Integers, Sequences, FiniteSets, TLC

\* ------------------------------------------------------------ numbers
Scale == 2 * 3 * 4 * 5

NaN == -999999

None == -888888

NoLabel == "null"

OUTLIER_FLAG == 1

IMPUTED_FLAG == 2

POOR_QUALITY_FLAG == 4

BucketMinutes == 10

MinutesPerHour == 60

MaxForecastSteps == 100

ZeroFallback == 0

CleanVersion == 1

IsNaN(x) == x = NaN

NotNaN(x) == x # NaN

\* x < y on floats: false when either side is NaN
Lt(x, y) == NotNaN(x) /\ NotNaN(y) /\ x < y

HasBit(f, b) == (f \div b) % 2 = 1

OrBit(f, b) == IF HasBit(f, b) THEN f ELSE f + b

SetMin(S) == CHOOSE m \in S : \A x \in S : m <= x

SetMax(S) == CHOOSE m \in S : \A x \in S : x <= m

RECURSIVE SortAsc(_)
SortAsc(S) == IF S = {} THEN << >>
              ELSE LET m == SetMin(S) IN << m >> \o SortAsc(S \ {m})

RECURSIVE SumSeq(_)
SumSeq(q) == IF q = << >> THEN 0 ELSE Head(q) + SumSeq(Tail(q))

Range(q) == {q[i] : i \in DOMAIN q}

\* the sub-sequence of q at the positions satisfying keep, in order
SelectIdx(q, keep) ==
    LET idx == SortAsc({i \in DOMAIN q : keep[i]})
    IN [k \in 1 .. Len(idx) |-> q[idx[k]]]

\* ordered insertion sort of a sequence of numbers
RECURSIVE SortNums(_)
SortNums(q) ==
    IF q = << >> THEN << >>
    ELSE LET m == SetMin(Range(q))
             i == CHOOSE j \in DOMAIN q : q[j] = m
             rest == [k \in 1 .. (Len(q) - 1) |-> IF k < i THEN q[k] ELSE q[k + 1]]
         IN << m >> \o SortNums(rest)

\* numpy/pandas median of a non-empty list of numbers
Median(q) ==
    LET s == SortNums(q)
        n == Len(s)
    IN IF n % 2 = 1 THEN s[(n + 1) \div 2]
       ELSE (s[n \div 2] + s[n \div 2 + 1]) \div 2

\* ------------------------------------------------- WindowAggregator
\* pipeline.py:_aggregate_10min_windows.  rows: the raw rows of one sensor,
\* a set of [ts, value_mm, quality] with unique ts.
BucketStartRight(ts) == (ts \div BucketMinutes) * BucketMinutes + BucketMinutes

BucketStart(ts) == (ts \div BucketMinutes) * BucketMinutes

\* resample(...).agg('max'): the maximum of the non-NaN values, NaN if none
AggMax(rows) ==
    LET vs == {r.value_mm : r \in {x \in rows : NotNaN(x.value_mm)}}
    IN IF vs = {} THEN NaN ELSE SetMax(vs)

AggMeanOfValued(rows) ==
    LET known == {r \in rows : NotNaN(r.quality) /\ NotNaN(r.value_mm)}
        tss == SortAsc({r.ts : r \in known})
        qs == [k \in 1 .. Len(tss) |->
                  (CHOOSE r \in known : r.ts = tss[k]).quality]
    IN IF known = {} THEN NaN ELSE SumSeq(qs) \div Len(qs)

\* resample(...).agg('mean'): the mean of the non-NaN qualities, NaN if none
AggMean(rows) ==
    LET known == {r \in rows : NotNaN(r.quality)}
        tss == SortAsc({r.ts : r \in known})
        qs == [k \in 1 .. Len(tss) |->
                  (CHOOSE r \in known : r.ts = tss[k]).quality]
    IN IF known = {} THEN NaN ELSE SumSeq(qs) \div Len(qs)

AggregateWindowsPerRow(rows) ==
    LET kept == {r \in rows : NotNaN(r.value_mm)}
        tss == SortAsc({r.ts : r \in kept})
    IN [k \in 1 .. Len(tss) |->
          LET r == CHOOSE x \in kept : x.ts = tss[k]
          IN [ts |-> BucketStart(r.ts), value_mm |-> r.value_mm,
              quality |-> r.quality]]

AggregateWindowsKeepEmpty(rows) ==
    LET window(b) == {r \in rows : BucketStart(r.ts) = b}
        resampled == {[ts |-> b, value_mm |-> AggMax(window(b)),
                       quality |-> AggMean(window(b))]
                         : b \in {BucketStart(r.ts) : r \in rows}}
        tss == SortAsc({w.ts : w \in resampled})
    IN [k \in 1 .. Len(tss) |-> CHOOSE w \in resampled : w.ts = tss[k]]

AggregateWindows(rows) ==
    LET window(b) == {r \in rows : BucketStart(r.ts) = b}
        resampled == {[ts |-> b, value_mm |-> AggMax(window(b)),
                       quality |-> AggMean(window(b))]
                         : b \in {BucketStart(r.ts) : r \in rows}}
        kept == {w \in resampled : NotNaN(w.value_mm)}
        tss == SortAsc({w.ts : w \in kept})
    IN [k \in 1 .. Len(tss) |-> CHOOSE w \in kept : w.ts = tss[k]]

\* --------------------------------------------------------- QCFilter
OutlierMaskUpperOnly(values, c) ==
    [i \in DOMAIN values |-> Lt(c.max_value_mm, values[i])]

\* pipeline.py:109
OutlierMask(values, c) ==
    [i \in DOMAIN values |->
        Lt(values[i], c.min_value_mm) \/ Lt(c.max_value_mm, values[i])]

PoorQualityMaskUnknownFails(quality, c) ==
    [i \in DOMAIN quality |->
        c.min_quality # None
        /\ (IsNaN(quality[i]) \/ Lt(quality[i], c.min_quality))]

\* pipeline.py:113-116: NaN quality compares false (fillna(False))
PoorQualityMask(quality, c) ==
    [i \in DOMAIN quality |->
        c.min_quality # None /\ Lt(quality[i], c.min_quality)]

\* pipeline.py:104-119: the series and the flags after QC
QcSeries(frame, c) ==
    LET values == [i \in DOMAIN frame |-> frame[i].value_mm]
        quality == [i \in DOMAIN frame |-> frame[i].quality]
        om == OutlierMask(values, c)
        pm == PoorQualityMask(quality, c)
    IN [i \in DOMAIN frame |-> IF om[i] \/ pm[i] THEN NaN ELSE values[i]]

QcFlags(frame, c) ==
    LET values == [i \in DOMAIN frame |-> frame[i].value_mm]
        quality == [i \in DOMAIN frame |-> frame[i].quality]
        om == OutlierMask(values, c)
        pm == PoorQualityMask(quality, c)
    IN [i \in DOMAIN frame |->
          LET f1 == IF om[i] THEN OrBit(0, OUTLIER_FLAG) ELSE 0
          IN IF pm[i] THEN OrBit(f1, POOR_QUALITY_FLAG) ELSE f1]

\* ------------------------------------------------ ForecastGapFiller
IsGap(series) == [i \in DOMAIN series |-> IsNaN(series[i])]

AnyGap(series) == \E i \in DOMAIN series : IsNaN(series[i])

TrainCount(series) == Cardinality({i \in DOMAIN series : NotNaN(series[i])})

\* np.clip(x, lo, hi) = minimum(maximum(x, lo), hi); NaN stays NaN
ClipValue(x, c) ==
    IF IsNaN(x) THEN NaN
    ELSE LET a == IF x < c.min_value_mm THEN c.min_value_mm ELSE x
         IN IF a > c.max_value_mm THEN c.max_value_mm ELSE a

\* pipeline.py:249-251: steps from the last labeled point of the input series
LastValidPos(series) == SetMax({i \in DOMAIN series : NotNaN(series[i])})

\* pipeline.py:213: train_data = filled.dropna(), the values handed to ARIMA
TrainData(series) ==
    SelectIdx(series, [i \in DOMAIN series |-> NotNaN(series[i])])

ForecastFitsNoMin(series, c) == AnyGap(series)

\* pipeline.py:201-240: the stage reaches model.fit()
ForecastFits(series, c) ==
    /\ TrainCount(series) >= c.arima_min_train
    /\ AnyGap(series)

ForecastTargetsNoCap(series, c) ==
    IF ForecastFits(series, c) /\ TrainCount(series) > 0
    THEN LET last == LastValidPos(series)
         IN {i \in DOMAIN series : IsNaN(series[i]) /\ i - last > 0}
    ELSE {}

\* pipeline.py:244-257: the gaps for which fitted_model.forecast is called
ForecastTargets(series, c) ==
    IF ForecastFits(series, c) /\ TrainCount(series) > 0
    THEN LET last == LastValidPos(series)
         IN {i \in DOMAIN series :
               /\ IsNaN(series[i])
               /\ i - last > 0
               /\ i - last <= MaxForecastSteps}
    ELSE {}

ArimaAttemptedIgnoreFit(series, c, o) ==
    LET last == LastValidPos(series)
    IN {i \in ForecastTargets(series, c) : o.pred[i - last].ok}

\* The numerical outcome of statsmodels is an input of the model: o.fit_ok says
\* whether model.fit() returns, o.pred[k] is the k-step forecast, a record
\* [ok, v]: ok = FALSE when forecast(steps=k) raises, v the predicted value.
ArimaAttempted(series, c, o) ==
    LET last == LastValidPos(series)
    IN {i \in ForecastTargets(series, c) : o.fit_ok /\ o.pred[i - last].ok}

\* pipeline.py:196-279, first component of the returned pair
ArimaFilled(series, c, o) ==
    LET last == LastValidPos(series)
        attempted == ArimaAttempted(series, c, o)
    IN [i \in DOMAIN series |->
          IF i \in attempted THEN ClipValue(o.pred[i - last].v, c)
          ELSE series[i]]

\* pipeline.py:196-279, second component of the returned pair
ArimaLabels(series, c, o) ==
    LET attempted == ArimaAttempted(series, c, o)
    IN [i \in DOMAIN series |->
          IF i \in attempted THEN "arima_forecast" ELSE NoLabel]

ForecastStageAlways(st, c, o) ==
    LET filled == ArimaFilled(st.s, c, o)
        labels == ArimaLabels(st.s, c, o)
        newly == [i \in DOMAIN st.s |-> IsNaN(st.s[i]) /\ NotNaN(filled[i])]
    IN [s |-> filled,
        m |-> [i \in DOMAIN st.m |-> IF newly[i] THEN labels[i] ELSE st.m[i]]]

\* pipeline.py:123-127
ForecastStage(st, c, o) ==
    IF c.arima_enabled
    THEN LET filled == ArimaFilled(st.s, c, o)
             labels == ArimaLabels(st.s, c, o)
             newly == [i \in DOMAIN st.s |-> IsNaN(st.s[i]) /\ NotNaN(filled[i])]
         IN [s |-> filled,
             m |-> [i \in DOMAIN st.m |-> IF newly[i] THEN labels[i] ELSE st.m[i]]]
    ELSE st

\* --------------------------------------------------- TimeInterpolator
\* pandas _interp_limit: a NaN keeps its NaN in one direction when the limit+1
\* positions ending (forward) or starting (backward) at it are all NaN
FwdBeyondWide(series, i, limit) ==
    \A j \in DOMAIN series : (i - limit - 1 <= j /\ j <= i) => IsNaN(series[j])

FwdBeyond(series, i, limit) ==
    \A j \in DOMAIN series : (i - limit <= j /\ j <= i) => IsNaN(series[j])

BwdBeyond(series, i, limit) ==
    \A j \in DOMAIN series : (i <= j /\ j <= i + limit) => IsNaN(series[j])

InterpAtPad(series, ts, i) ==
    LET before == {j \in DOMAIN series : j < i /\ NotNaN(series[j])}
        after == {j \in DOMAIN series : j > i /\ NotNaN(series[j])}
    IN IF before = {} /\ after = {} THEN NaN
       ELSE IF before = {} THEN series[SetMin(after)]
       ELSE series[SetMax(before)]

\* np.interp over the index values: linear in elapsed time between the
\* neighbouring labeled points, the nearest labeled value outside them
InterpAt(series, ts, i) ==
    LET before == {j \in DOMAIN series : j < i /\ NotNaN(series[j])}
        after == {j \in DOMAIN series : j > i /\ NotNaN(series[j])}
    IN IF before = {} /\ after = {} THEN NaN
       ELSE IF before = {} THEN series[SetMin(after)]
       ELSE IF after = {} THEN series[SetMax(before)]
       ELSE LET p == SetMax(before)
                n == SetMin(after)
            IN series[p] +
               ((series[n] - series[p]) * (ts[i] - ts[p])) \div (ts[n] - ts[p])

InterpolateNoLimit(series, ts, limit) ==
    [i \in DOMAIN series |->
        IF NotNaN(series[i]) THEN series[i] ELSE InterpAt(series, ts, i)]

\* Series.interpolate(method="time", limit=limit, limit_direction="both")
Interpolate(series, ts, limit) ==
    [i \in DOMAIN series |->
        IF NotNaN(series[i]) THEN series[i]
        ELSE IF FwdBeyond(series, i, limit) /\ BwdBeyond(series, i, limit) THEN NaN
        ELSE InterpAt(series, ts, i)]

\* pandas validate_limit: "Limit must be greater than 0"
InterpRaises(st, c) == AnyGap(st.s) /\ c.interpolation_limit < 1

InterpStageNoMask(st, ts, c) ==
    LET interp == Interpolate(st.s, ts, c.interpolation_limit)
        filled == [i \in DOMAIN st.s |-> NotNaN(interp[i])]
    IN [s |-> [i \in DOMAIN st.s |-> IF filled[i] THEN interp[i] ELSE st.s[i]],
        m |-> [i \in DOMAIN st.m |-> IF filled[i] THEN "time_interp" ELSE st.m[i]]]

\* pipeline.py:129-140 (when interpolate does not raise)
InterpStage(st, ts, c) ==
    IF AnyGap(st.s)
    THEN LET interp == Interpolate(st.s, ts, c.interpolation_limit)
             filled == [i \in DOMAIN st.s |-> IsNaN(st.s[i]) /\ NotNaN(interp[i])]
         IN [s |-> [i \in DOMAIN st.s |-> IF filled[i] THEN interp[i] ELSE st.s[i]],
             m |-> [i \in DOMAIN st.m |-> IF filled[i] THEN "time_interp" ELSE st.m[i]]]
    ELSE st

\* ----------------------------------------------- SeasonalMedianFiller
\* DatetimeIndex.hour
HourOf(t) == (t \div MinutesPerHour) % 24

HourMedianGlobal(series, ts, h) ==
    Median(SelectIdx(series, [i \in DOMAIN series |-> NotNaN(series[i])]))

\* base_series.groupby(base_series.index.hour).median() at one hour
HourMedian(series, ts, h) ==
    LET keep == [i \in DOMAIN series |-> NotNaN(series[i]) /\ HourOf(ts[i]) = h]
    IN Median(SelectIdx(series, keep))

HasHourMedian(series, ts, h) ==
    \E i \in DOMAIN series : NotNaN(series[i]) /\ HourOf(ts[i]) = h

MedianStageNoMask(st, ts) ==
    LET hit == [i \in DOMAIN st.s |-> HasHourMedian(st.s, ts, HourOf(ts[i]))]
    IN [s |-> [i \in DOMAIN st.s |->
                 IF hit[i] THEN HourMedian(st.s, ts, HourOf(ts[i])) ELSE st.s[i]],
        m |-> [i \in DOMAIN st.m |-> IF hit[i] THEN "hour_median" ELSE st.m[i]]]

\* pipeline.py:142-155: the medians are those of the series entering the stage
MedianStage(st, ts) ==
    LET hit == [i \in DOMAIN st.s |->
                  IsNaN(st.s[i]) /\ HasHourMedian(st.s, ts, HourOf(ts[i]))]
    IN [s |-> [i \in DOMAIN st.s |->
                 IF hit[i] THEN HourMedian(st.s, ts, HourOf(ts[i])) ELSE st.s[i]],
        m |-> [i \in DOMAIN st.m |-> IF hit[i] THEN "hour_median" ELSE st.m[i]]]

\* ----------------------------------------------- GlobalFallbackFiller
FallbackStageOne(st) ==
    [s |-> [i \in DOMAIN st.s |-> IF IsNaN(st.s[i]) THEN Scale ELSE st.s[i]],
     m |-> [i \in DOMAIN st.m |-> IF IsNaN(st.s[i]) THEN "zero_fallback" ELSE st.m[i]]]

FallbackStageSkip(st) == st

\* pipeline.py:157-167
FallbackStage(st) ==
    [s |-> [i \in DOMAIN st.s |-> IF IsNaN(st.s[i]) THEN ZeroFallback ELSE st.s[i]],
     m |-> [i \in DOMAIN st.m |-> IF IsNaN(st.s[i]) THEN "zero_fallback" ELSE st.m[i]]]

\* ------------------------------------------------------- ClampAndEmit
ClipSeriesNone(series, c) == series

\* pipeline.py:169
ClipSeries(series, c) == [i \in DOMAIN series |-> ClipValue(series[i], c)]

ImputedFlagsNone(flags, method) == flags

ImputedFlagsOverwrite(flags, method) ==
    [i \in DOMAIN flags |->
        IF method[i] # NoLabel THEN IMPUTED_FLAG ELSE flags[i]]

\* pipeline.py:171-172
ImputedFlags(flags, method) ==
    [i \in DOMAIN flags |->
        IF method[i] # NoLabel THEN OrBit(flags[i], IMPUTED_FLAG) ELSE flags[i]]

\* pipeline.py:174-193: one row per point that still has a value
EmitRows(sid, ts, series, flags, method) ==
    LET all == [i \in DOMAIN series |->
                   [sensor_id |-> sid, ts |-> ts[i], value_mm |-> series[i],
                    qc_flags |-> flags[i], imputation_method |-> method[i],
                    version |-> CleanVersion]]
    IN SelectIdx(all, [i \in DOMAIN series |-> NotNaN(series[i])])

\* ------------------------------------------------------------ inputs
NumBuckets == 3

\* The 10-minute buckets of the input window; bucket b starts at minute
\* b * BucketMinutes, and the window crosses an hour boundary.
Buckets == 4 .. (3 + NumBuckets)

Raw(t, v, q) == [ts |-> t, value_mm |-> v, quality |-> q]

\* What one bucket of one sensor may hold in raw_measurements.
BucketInputs(b) ==
    LET t0 == b * BucketMinutes
    IN { {},
         {Raw(t0, NaN, NaN)},
         {Raw(t0 + 3, 2 * Scale, NaN)},
         {Raw(t0 + 3, 2 * Scale, Scale)},
         {Raw(t0, 6 * Scale, NaN)},
         {Raw(t0, 2 * Scale, Scale), Raw(t0 + 5, 6 * Scale, NaN)},
         {Raw(t0 + 3, 200 * Scale, NaN)},
         {Raw(t0 + 3, 200 * Scale, Scale)} }

RawInputs ==
    {UNION {f[b] : b \in Buckets} :
        f \in {g \in [Buckets -> UNION {BucketInputs(b) : b \in Buckets}] :
                 \A b \in Buckets : g[b] \in BucketInputs(b)}}

Cfg(lo, hi, mq, lim, en, tr) ==
    [min_value_mm |-> lo, max_value_mm |-> hi, min_quality |-> mq,
     interpolation_limit |-> lim, arima_enabled |-> en, arima_min_train |-> tr]

Configs ==
    { Cfg(0, 150 * Scale, None, 1, FALSE, 2),
      Cfg(0, 150 * Scale, None, 1, TRUE, 2),
      Cfg(0, 150 * Scale, 2 * Scale, 2, TRUE, 1),
      Cfg(4 * Scale, 150 * Scale, Scale, 1, FALSE, 2),
      Cfg(0, 150 * Scale, None, 0, FALSE, 2),
      Cfg(4 * Scale, 150 * Scale, 2 * Scale, 1, TRUE, 2),
      Cfg(0, 150 * Scale, Scale, 2, FALSE, 2),
      Cfg(0, 150 * Scale, None, 2, TRUE, 3) }

\* Outcomes of one call of fitted_model.forecast(steps=k)
ForecastOutcomes ==
    { [ok |-> FALSE, v |-> NaN], [ok |-> TRUE, v |-> NaN],
      [ok |-> TRUE, v |-> 3 * Scale], [ok |-> TRUE, v |-> 300 * Scale],
      [ok |-> TRUE, v |-> 0 - Scale] }

\* The outcomes of statsmodels that the stage can observe on this series
Oracles(series, c) ==
    LET steps == {i - LastValidPos(series) : i \in ForecastTargets(series, c)}
    IN IF steps # {}
       THEN {[fit_ok |-> ok, pred |-> p] :
                ok \in BOOLEAN, p \in [steps -> ForecastOutcomes]}
       ELSE {[fit_ok |-> TRUE, pred |-> << >>]}

\* ------------------------------------------- the cascade of one sensor
VARIABLES cfg, raw, pc, df, clean_series, qc_flags, imputation_method,
          result, hist

pipeVars == << cfg, raw, pc, df, clean_series, qc_flags, imputation_method,
               result, hist >>

SensorId == 1

Ts(frame) == [i \in DOMAIN frame |-> frame[i].ts]

NoHist == [qc |-> << >>, forecast |-> << >>, interp |-> << >>, median |-> << >>]

PipeInit ==
    /\ cfg \in Configs
    /\ raw \in RawInputs
    /\ pc = "start"
    /\ df = << >>
    /\ clean_series = << >>
    /\ qc_flags = << >>
    /\ imputation_method = << >>
    /\ result = << >>
    /\ hist = NoHist

\* pipeline.py:88-90
Aggregate ==
    /\ pc = "start"
    /\ df' = AggregateWindows(raw)
    /\ pc' = IF df' = << >> THEN "done" ELSE "aggregated"
    /\ UNCHANGED << cfg, raw, clean_series, qc_flags, imputation_method,
                    result, hist >>

\* pipeline.py:101-121
Qc ==
    /\ pc = "aggregated"
    /\ clean_series' = QcSeries(df, cfg)
    /\ qc_flags' = QcFlags(df, cfg)
    /\ imputation_method' = [i \in DOMAIN df |-> NoLabel]
    /\ hist' = [hist EXCEPT !.qc = clean_series']
    /\ pc' = "qc"
    /\ UNCHANGED << cfg, raw, df, result >>

St == [s |-> clean_series, m |-> imputation_method]

\* pipeline.py:123-127
Forecast ==
    /\ pc = "qc"
    /\ \E o \in Oracles(clean_series, cfg) :
          LET nx == ForecastStage(St, cfg, o)
          IN /\ clean_series' = nx.s
             /\ imputation_method' = nx.m
    /\ hist' = [hist EXCEPT !.forecast = clean_series']
    /\ pc' = "forecast"
    /\ UNCHANGED << cfg, raw, df, qc_flags, result >>

\* pipeline.py:129-140
Interp ==
    /\ pc = "forecast"
    /\ IF InterpRaises(St, cfg)
       THEN /\ pc' = "raised"
            /\ UNCHANGED << clean_series, imputation_method, hist >>
       ELSE LET nx == InterpStage(St, Ts(df), cfg)
            IN /\ clean_series' = nx.s
               /\ imputation_method' = nx.m
               /\ hist' = [hist EXCEPT !.interp = nx.s]
               /\ pc' = "interp"
    /\ UNCHANGED << cfg, raw, df, qc_flags, result >>

\* pipeline.py:142-155
HourlyMedian ==
    /\ pc = "interp"
    /\ LET nx == MedianStage(St, Ts(df))
       IN /\ clean_series' = nx.s
          /\ imputation_method' = nx.m
          /\ hist' = [hist EXCEPT !.median = nx.s]
    /\ pc' = "median"
    /\ UNCHANGED << cfg, raw, df, qc_flags, result >>

\* pipeline.py:157-167
Fallback ==
    /\ pc = "median"
    /\ LET nx == FallbackStage(St)
       IN /\ clean_series' = nx.s
          /\ imputation_method' = nx.m
    /\ pc' = "fallback"
    /\ UNCHANGED << cfg, raw, df, qc_flags, result, hist >>

\* pipeline.py:169-193
Emit ==
    /\ pc = "fallback"
    /\ clean_series' = ClipSeries(clean_series, cfg)
    /\ qc_flags' = ImputedFlags(qc_flags, imputation_method)
    /\ result' = EmitRows(SensorId, Ts(df), clean_series', qc_flags',
                          imputation_method)
    /\ pc' = "done"
    /\ UNCHANGED << cfg, raw, df, imputation_method, hist >>

\* --------------------------------------- clean_measurements on a batch
\* pipeline.py:100-193 in one step: the rows _clean_sensor_dataframe returns
\* for the aggregated frame of one sensor, or the exception it raises.
CleanSensorFrame(sid, frame, c, o) ==
    LET ts == Ts(frame)
        st0 == [s |-> QcSeries(frame, c), m |-> [i \in DOMAIN frame |-> NoLabel]]
        st1 == ForecastStage(st0, c, o)
        st2 == InterpStage(st1, ts, c)
        st3 == MedianStage(st2, ts)
        st4 == FallbackStage(st3)
        flags == ImputedFlags(QcFlags(frame, c), st4.m)
    IN IF InterpRaises(st1, c)
       THEN [raised |-> TRUE, rows |-> << >>]
       ELSE [raised |-> FALSE,
             rows |-> EmitRows(sid, ts, ClipSeries(st4.s, c), flags, st4.m)]

\* raw_df.groupby("sensor_id"): the groups in ascending key order
GroupKeys(rawdf) == SortAsc({r.sensor_id : r \in rawdf})

Group(rawdf, sid) ==
    {Raw(r.ts, r.value_mm, r.quality) : r \in {x \in rawdf : x.sensor_id = sid}}

WithSensor(sid, rows) ==
    {[sensor_id |-> sid, ts |-> r.ts, value_mm |-> r.value_mm,
      quality |-> r.quality] : r \in rows}

\* The raw rows of a batch: fewer shapes per bucket than BucketInputs, over the
\* buckets before the last one.
BatchBuckets == 4 .. (2 + NumBuckets)

BatchBucketInputs(b) ==
    LET t0 == b * BucketMinutes
    IN { {},
         {Raw(t0 + 3, 2 * Scale, NaN)},
         {Raw(t0, 2 * Scale, Scale), Raw(t0 + 5, 6 * Scale, NaN)},
         {Raw(t0 + 3, 200 * Scale, Scale)} }

BatchSensorInputs ==
    {UNION {f[b] : b \in BatchBuckets} :
        f \in {g \in [BatchBuckets -> UNION {BatchBucketInputs(b) : b \in BatchBuckets}] :
                 \A b \in BatchBuckets : g[b] \in BatchBucketInputs(b)}}

Sensors == {1, 2}

BatchInputs ==
    {UNION {WithSensor(s, f[s]) : s \in Sensors} :
        f \in [Sensors -> BatchSensorInputs]}

BatchConfigs ==
    { Cfg(0, 150 * Scale, None, 1, TRUE, 1),
      Cfg(0, 150 * Scale, 2 * Scale, 0, FALSE, 2),
      Cfg(4 * Scale, 150 * Scale, None, 0, TRUE, 1) }

VARIABLES b_cfg, raw_df, b_pc, pending, results, cleaned_df

batchVars == << b_cfg, raw_df, b_pc, pending, results, cleaned_df >>

BatchInit ==
    /\ b_cfg \in BatchConfigs
    /\ raw_df \in BatchInputs
    /\ b_pc = "call"
    /\ pending = << >>
    /\ results = << >>
    /\ cleaned_df = << >>

BatchIdle ==
    /\ b_cfg = Cfg(0, 0, None, 1, FALSE, 1)
    /\ raw_df = {}
    /\ b_pc = "idle"
    /\ pending = << >>
    /\ results = << >>
    /\ cleaned_df = << >>

\* pipeline.py:82-86
BatchEnter ==
    /\ b_pc = "call"
    /\ IF raw_df = {}
       THEN b_pc' = "returned" /\ pending' = << >>
       ELSE b_pc' = "loop" /\ pending' = GroupKeys(raw_df)
    /\ UNCHANGED << b_cfg, raw_df, results, cleaned_df >>

\* pipeline.py:86-94: one iteration of the loop over the groups; an exception
\* of _clean_sensor_dataframe is not caught and leaves clean_measurements
BatchIterate ==
    /\ b_pc = "loop"
    /\ pending # << >>
    /\ LET sid == Head(pending)
           aggregated == AggregateWindows(Group(raw_df, sid))
       IN IF aggregated = << >>
          THEN /\ pending' = Tail(pending)
               /\ UNCHANGED << b_pc, results >>
          ELSE \E o \in Oracles(QcSeries(aggregated, b_cfg), b_cfg) :
                  LET out == CleanSensorFrame(sid, aggregated, b_cfg, o)
                  IN IF out.raised
                     THEN /\ b_pc' = "raised"
                          /\ pending' = << >>
                          /\ results' = << >>
                     ELSE /\ pending' = Tail(pending)
                          /\ results' = IF out.rows = << >> THEN results
                                        ELSE Append(results, out.rows)
                          /\ UNCHANGED b_pc
    /\ UNCHANGED << b_cfg, raw_df, cleaned_df >>

RECURSIVE Concat(_)
Concat(frames) ==
    IF frames = << >> THEN << >> ELSE Head(frames) \o Concat(Tail(frames))

\* pipeline.py:95-97
BatchReturn ==
    /\ b_pc = "loop"
    /\ pending = << >>
    /\ cleaned_df' = Concat(results)
    /\ b_pc' = "returned"
    /\ UNCHANGED << b_cfg, raw_df, pending, results >>

\* ------------------------------------------------------ the clean store
\* db.py:72-92, the rows of one call: a record per cleaned row; the table
\* clean_measurements is the set of its rows.
Key(r) == << r.sensor_id, r.ts, r.version >>

\* one INSERT ... ON CONFLICT DO UPDATE cannot touch a row twice: PostgreSQL
\* rejects the statement and the transaction rolls back
HasDuplicateKeys(rows) ==
    \E i, j \in DOMAIN rows : i # j /\ Key(rows[i]) = Key(rows[j])

UpsertPlainInsert(table, rows) == table \cup Range(rows)

\* db.py:77-91: insert, and on a conflict on (sensor_id, ts, version) replace
\* value_mm, qc_flags and imputation_method by the new row's
Upsert(table, rows) ==
    {r \in table : \A i \in DOMAIN rows : Key(rows[i]) # Key(r)} \cup Range(rows)

\* db.py:72-92: the table after the call
InsertCleanMeasurements(table, rows) ==
    IF rows = << >> THEN table
    ELSE IF HasDuplicateKeys(rows) THEN table
    ELSE Upsert(table, rows)

\* db.py:11-27 RAW_QUERY: the raw rows at or after since that have no clean
\* row of version 1 with the same sensor and the same timestamp
FetchRawMeasurements(rawtable, table, since) ==
    {rm \in rawtable :
        /\ rm.ts >= since
        /\ ~\E cm \in table :
              /\ cm.sensor_id = rm.sensor_id
              /\ cm.ts = rm.ts
              /\ cm.version = CleanVersion}

\* pipeline.py:76-97 in one step, for configurations under which the forecast
\* stage never fits (arima_min_train above the window length)
NoOracle == [fit_ok |-> TRUE, pred |-> << >>]

RECURSIVE CleanLoop(_, _, _)
CleanLoop(sids, rawdf, c) ==
    IF sids = << >> THEN [raised |-> FALSE, rows |-> << >>]
    ELSE LET aggregated == AggregateWindows(Group(rawdf, Head(sids)))
             out == IF aggregated = << >> THEN [raised |-> FALSE, rows |-> << >>]
                    ELSE CleanSensorFrame(Head(sids), aggregated, c, NoOracle)
             rest == CleanLoop(Tail(sids), rawdf, c)
         IN IF out.raised \/ rest.raised
            THEN [raised |-> TRUE, rows |-> << >>]
            ELSE [raised |-> FALSE, rows |-> out.rows \o rest.rows]

CleanMeasurements(rawdf, c) == CleanLoop(GroupKeys(rawdf), rawdf, c)

MaxRuns == 2

\* test_arima.py:27: the training size of the repository's configurations
DefaultMinTrain == 48

StoreBucketInputs(b) ==
    LET t0 == b * BucketMinutes
    IN { {},
         {Raw(t0, 2 * Scale, NaN)},
         {Raw(t0 + 3, 6 * Scale, NaN)},
         {Raw(t0, 6 * Scale, NaN), Raw(t0 + 5, 2 * Scale, NaN)},
         {Raw(t0 + 3, 200 * Scale, NaN)} }

StoreInputs ==
    {WithSensor(1, UNION {f[b] : b \in Buckets}) \cup extra :
        f \in {g \in [Buckets -> UNION {StoreBucketInputs(b) : b \in Buckets}] :
                 \A b \in Buckets : g[b] \in StoreBucketInputs(b)},
        extra \in {{}, WithSensor(2, {Raw(43, 2 * Scale, NaN)})}}

StoreConfigs ==
    { [c |-> Cfg(0, 150 * Scale, None, 1, TRUE, DefaultMinTrain), dry_run |-> FALSE],
      [c |-> Cfg(0, 150 * Scale, None, 2, FALSE, DefaultMinTrain), dry_run |-> FALSE],
      [c |-> Cfg(0, 150 * Scale, None, 1, TRUE, DefaultMinTrain), dry_run |-> TRUE] }

VARIABLES s_cfg, raw_measurements, clean_measurements, since, runs,
          after_first, last_write

storeVars == << s_cfg, raw_measurements, clean_measurements, since, runs,
                after_first, last_write >>

Written(r) ==
    [value_mm |-> r.value_mm, qc_flags |-> r.qc_flags,
     imputation_method |-> r.imputation_method]

\* the keys a successful call wrote, with what it wrote
Record(lw, rows) ==
    IF rows = << >> \/ HasDuplicateKeys(rows) THEN lw
    ELSE [k \in DOMAIN lw \cup {Key(rows[i]) : i \in DOMAIN rows} |->
            IF \E i \in DOMAIN rows : Key(rows[i]) = k
            THEN Written(rows[CHOOSE i \in DOMAIN rows : Key(rows[i]) = k])
            ELSE lw[k]]

StoreIdle ==
    /\ s_cfg = [c |-> Cfg(0, 0, None, 1, FALSE, 1), dry_run |-> TRUE]
    /\ raw_measurements = {}
    /\ clean_measurements = {}
    /\ since = 0
    /\ runs = 0
    /\ after_first = {}
    /\ last_write = << >>

RerunInit ==
    /\ s_cfg \in StoreConfigs
    /\ raw_measurements \in StoreInputs
    /\ clean_measurements = {}
    /\ since \in {0, 5 * BucketMinutes}
    /\ runs = 0
    /\ after_first = {}
    /\ last_write = << >>

\* main.py:16-48: one run of the cleaner
CleanerRun ==
    /\ runs < MaxRuns
    /\ runs' = runs + 1
    /\ LET raw_in == FetchRawMeasurements(raw_measurements, clean_measurements, since)
           out == CleanMeasurements(raw_in, s_cfg.c)
           rows == IF raw_in = {} \/ out.raised \/ s_cfg.dry_run
                   THEN << >> ELSE out.rows
       IN /\ clean_measurements' = InsertCleanMeasurements(clean_measurements, rows)
          /\ last_write' = Record(last_write, rows)
    /\ after_first' = IF runs = 0 THEN clean_measurements' ELSE after_first
    /\ UNCHANGED << s_cfg, raw_measurements, since >>

\* Rows a caller may pass to insert_clean_measurements
CallRows ==
    {r \in
     {[sensor_id |-> s, ts |-> t, value_mm |-> w.value_mm, qc_flags |-> w.qc_flags,
      imputation_method |-> w.imputation_method, version |-> v] :
        s \in Sensors, t \in {4 * BucketMinutes, 5 * BucketMinutes},
        v \in {CleanVersion, CleanVersion + 1},
        w \in {[value_mm |-> 2 * Scale, qc_flags |-> 0, imputation_method |-> NoLabel],
               [value_mm |-> 0, qc_flags |-> 3, imputation_method |-> "zero_fallback"]}} :
        r.ts = 4 * BucketMinutes \/ (r.sensor_id = 1 /\ r.version = CleanVersion)}

MaxCalls == 2

InsertInit ==
    /\ s_cfg = [c |-> Cfg(0, 150 * Scale, None, 1, FALSE, DefaultMinTrain),
                dry_run |-> FALSE]
    /\ raw_measurements = {}
    /\ clean_measurements = {}
    /\ since = 0
    /\ runs = 0
    /\ after_first = {}
    /\ last_write = << >>

\* db.py:72-92: a call of insert_clean_measurements with one or two rows
InsertCall ==
    /\ runs < MaxCalls
    /\ runs' = runs + 1
    /\ \E rows \in [{1} -> CallRows] \cup [{1, 2} -> CallRows] :
          /\ clean_measurements' = InsertCleanMeasurements(clean_measurements, rows)
          /\ last_write' = Record(last_write, rows)
    /\ after_first' = IF runs = 0 THEN clean_measurements' ELSE after_first
    /\ UNCHANGED << s_cfg, raw_measurements, since >>

\* ------------------------------- _arima_forecast_fill on a long series
MaxTail == 2

\* lengths of the run of missing points that ends the series: short ones and
\* the ones around the cap on forecast steps
TailLengths ==
    (0 .. MaxTail) \cup ((MaxForecastSteps - 1) .. (MaxForecastSteps + MaxTail))

Gaps(n) == [i \in 1 .. n |-> NaN]

\* clean_series after QC: missing points, then labeled ones around at most one
\* nulled point, then a run of missing points
SeriesWithTails(tails) ==
    {Gaps(l) \o core \o Gaps(n) :
        l \in 0 .. 1,
        core \in { << 2 * Scale >>, << 2 * Scale, 6 * Scale >>,
                   << 2 * Scale, NaN, 6 * Scale >> },
        n \in tails}

ArimaSeries == SeriesWithTails(TailLengths)

ArimaShortSeries == SeriesWithTails(0 .. (MaxTail + 1))

\* the DatetimeIndex of the series: consecutive 10-minute buckets
ArimaTs(series) == [i \in DOMAIN series |-> (23 + i) * BucketMinutes]

ArimaConfigs ==
    { Cfg(0, 150 * Scale, None, 1, TRUE, 1),
      Cfg(0, 150 * Scale, None, 2, TRUE, 2),
      Cfg(4 * Scale, 150 * Scale, None, 1, TRUE, 2),
      Cfg(0, 150 * Scale, None, 1, FALSE, 1) }

\* Outcomes of statsmodels on a long series: the fit returns or raises, the
\* forecasts return the same outcome at every distance, except that the
\* forecast at one or two steps may raise on its own.
ArimaOracles(series, c) ==
    LET steps == {i - LastValidPos(series) : i \in ForecastTargets(series, c)}
    IN IF steps # {}
       THEN {[fit_ok |-> ok,
              pred |-> [k \in steps |->
                          IF k \in bad THEN [ok |-> FALSE, v |-> NaN] ELSE out]] :
                ok \in BOOLEAN, out \in ForecastOutcomes, bad \in {{}, {1}, {2}}}
       ELSE {[fit_ok |-> TRUE, pred |-> << >>]}

VARIABLES a_cfg, a_series, a_oracle, a_pc, a_filled, a_final, a_train

arimaVars ==
    << a_cfg, a_series, a_oracle, a_pc, a_filled, a_final, a_train >>

NoStage == [s |-> << >>, m |-> << >>]

Unlabeled(series) == [s |-> series, m |-> [i \in DOMAIN series |-> NoLabel]]

ArimaInit(inputs) ==
    /\ a_cfg \in ArimaConfigs
    /\ a_series \in inputs
    /\ a_oracle = NoOracle
    /\ a_pc = "start"
    /\ a_filled = NoStage
    /\ a_final = NoStage
    /\ a_train = << >>

ArimaIdle ==
    /\ a_cfg = Cfg(0, 0, None, 1, FALSE, 1)
    /\ a_series = << >>
    /\ a_oracle = NoOracle
    /\ a_pc = "idle"
    /\ a_filled = NoStage
    /\ a_final = NoStage
    /\ a_train = << >>

\* pipeline.py:123-127 with pipeline.py:196-279
ArimaForecastFill ==
    /\ a_pc = "start"
    /\ \E o \in ArimaOracles(a_series, a_cfg) :
          /\ a_oracle' = o
          /\ a_filled' = ForecastStage(Unlabeled(a_series), a_cfg, o)
    /\ a_train' = IF a_cfg.arima_enabled /\ ForecastFits(a_series, a_cfg)
                  THEN TrainData(a_series) ELSE << >>
    /\ a_pc' = "forecast"
    /\ UNCHANGED << a_cfg, a_series, a_final >>

\* pipeline.py:129-167: the stages after the forecast
ArimaLaterStages ==
    /\ a_pc = "forecast"
    /\ IF InterpRaises(a_filled, a_cfg)
       THEN /\ a_pc' = "raised"
            /\ UNCHANGED a_final
       ELSE LET ts == ArimaTs(a_series)
            IN /\ a_final' = FallbackStage(
                                MedianStage(InterpStage(a_filled, ts, a_cfg), ts))
               /\ a_pc' = "done"
    /\ UNCHANGED << a_cfg, a_series, a_oracle, a_filled, a_train >>

\* ------------------------- repeated calls of clean_measurements on one frame
\* statsmodels is deterministic: what model.fit() and forecast() do on a
\* sensor's series is fixed by the series, one outcome per sensor.
Libraries(rawdf, c) ==
    LET sids == {r.sensor_id : r \in rawdf}
        outcomes(sid) ==
            Oracles(QcSeries(AggregateWindows(Group(rawdf, sid)), c), c)
    IN {f \in [sids -> UNION {outcomes(sid) : sid \in sids}] :
           \A sid \in sids : f[sid] \in outcomes(sid)}

\* pipeline.py:76-97 in one step, with the outcome of statsmodels per sensor
RECURSIVE CleanLoopWith(_, _, _, _)
CleanLoopWith(sids, rawdf, c, lib) ==
    IF sids = << >> THEN [raised |-> FALSE, rows |-> << >>]
    ELSE LET aggregated == AggregateWindows(Group(rawdf, Head(sids)))
             out == IF aggregated = << >> THEN [raised |-> FALSE, rows |-> << >>]
                    ELSE CleanSensorFrame(Head(sids), aggregated, c, lib[Head(sids)])
             rest == CleanLoopWith(Tail(sids), rawdf, c, lib)
         IN IF out.raised \/ rest.raised
            THEN [raised |-> TRUE, rows |-> << >>]
            ELSE [raised |-> FALSE, rows |-> out.rows \o rest.rows]

RawAfterCallInPlace(rawdf, c) ==
    {[r EXCEPT !.value_mm =
         IF Lt(r.value_mm, c.min_value_mm) \/ Lt(c.max_value_mm, r.value_mm)
         THEN NaN ELSE r.value_mm] : r \in rawdf}

\* pipeline.py:37 and 104: the stages work on copies, the caller's frame is
\* as it was when the call returns
RawAfterCall(rawdf, c) == rawdf

\* the frames of the repeated calls: the second sensor reports in the first
\* bucket only
TwiceInputs ==
    {rawdf \in BatchInputs :
        \A r \in rawdf :
           r.sensor_id # SetMin(Sensors) =>
              BucketStart(r.ts) = SetMin(BatchBuckets) * BucketMinutes}

VARIABLES t_cfg, t_df, t_lib, t_calls

twiceVars == << t_cfg, t_df, t_lib, t_calls >>

TwiceInit ==
    /\ t_cfg \in BatchConfigs
    /\ t_df \in TwiceInputs
    /\ t_lib \in Libraries(t_df, t_cfg)
    /\ t_calls = << >>

TwiceIdle ==
    /\ t_cfg = Cfg(0, 0, None, 1, FALSE, 1)
    /\ t_df = {}
    /\ t_lib = << >>
    /\ t_calls = << >>

\* pipeline.py:76-97: one more call on the same frame and configuration
CleanAgain ==
    /\ Len(t_calls) < MaxRuns
    /\ t_calls' = Append(t_calls,
                         CleanLoopWith(GroupKeys(t_df), t_df, t_cfg, t_lib))
    /\ t_df' = RawAfterCall(t_df, t_cfg)
    /\ UNCHANGED << t_cfg, t_lib >>

\* ------------------------------ _aggregate_10min_windows on its own output
\* The raw rows of one bucket: none, one without a value, one, two with
\* different qualities, one with a value beside one without.
AggShapes == {"none", "missing", "one", "two", "mixed"}

AggBucketInputs(b, shape) ==
    LET t0 == b * BucketMinutes
    IN CASE shape = "none" -> {}
         [] shape = "missing" -> {Raw(t0 + 3, NaN, Scale)}
         [] shape = "one" -> {Raw(t0 + 3, 2 * Scale, NaN)}
         [] shape = "two" ->
               {Raw(t0, 2 * Scale, Scale), Raw(t0 + 5, 6 * Scale, 2 * Scale)}
         [] shape = "mixed" ->
               {Raw(t0 + 2, 6 * Scale, 2 * Scale), Raw(t0 + 7, NaN, Scale)}

AggInputs ==
    {UNION {AggBucketInputs(b, f[b]) : b \in Buckets} : f \in [Buckets -> AggShapes]}

\* the rows of an aggregated frame, as the input of another aggregation
FrameRows(frame) ==
    {Raw(frame[i].ts, frame[i].value_mm, frame[i].quality) : i \in DOMAIN frame}

VARIABLES g_df, g_pc, g_once, g_twice

aggVars == << g_df, g_pc, g_once, g_twice >>

AggInit ==
    /\ g_df \in AggInputs
    /\ g_pc = "start"
    /\ g_once = << >>
    /\ g_twice = << >>

AggIdle ==
    /\ g_df = {}
    /\ g_pc = "idle"
    /\ g_once = << >>
    /\ g_twice = << >>

\* pipeline.py:19-73 on the raw rows
AggregateOnce ==
    /\ g_pc = "start"
    /\ g_once' = AggregateWindows(g_df)
    /\ g_pc' = "once"
    /\ UNCHANGED << g_df, g_twice >>

\* pipeline.py:19-73 on the frame it returned
AggregateAgain ==
    /\ g_pc = "once"
    /\ g_twice' = AggregateWindows(FrameRows(g_once))
    /\ g_pc' = "twice"
    /\ UNCHANGED << g_df, g_once >>

\* ------------------------------------------------------- ArchiveBuilder
\* Timestamps of the archiver are slots, SlotsPerDay of them in a day.  A day
\* key is the day's number: strftime("%Y-%m-%d") is zero-padded, so the order
\* of the keys as strings is the order of the days.
SlotsPerDay == 2

DayKey(ts) == ts \div SlotsPerDay

Clean(sid, t, v, flags, method) ==
    [sensor_id |-> sid, ts |-> t, value_mm |-> v,
     qc_flags |-> flags, imputation_method |-> method]

\* archive_builder.py:35-40
Entry(m) ==
    [time |-> m.ts, measurement |-> m.value_mm,
     qc_flags |-> m.qc_flags, imputation_method |-> m.imputation_method]

AddToDayAlwaysNew(sensors, m) ==
    Append(sensors, [sensor |-> m.sensor_id, measurements |-> << Entry(m) >>])

\* data_by_day[day_key][sensor_id].append(...): a dict keeps its keys in the
\* order of their first insertion
AddToDay(sensors, m) ==
    IF \E i \in DOMAIN sensors : sensors[i].sensor = m.sensor_id
    THEN [i \in DOMAIN sensors |->
             IF sensors[i].sensor = m.sensor_id
             THEN [sensors[i] EXCEPT !.measurements = Append(@, Entry(m))]
             ELSE sensors[i]]
    ELSE Append(sensors, [sensor |-> m.sensor_id, measurements |-> << Entry(m) >>])

\* archive_builder.py:24-40
AddMeasurement(data, m) ==
    LET day == DayKey(m.ts)
        old == IF day \in DOMAIN data THEN data[day] ELSE << >>
    IN [d \in (DOMAIN data) \cup {day} |->
           IF d = day THEN AddToDay(old, m) ELSE data[d]]

\* archive_builder.py:42-63, the returned structure
BuildArchiveForDay(data, day) ==
    [day |-> day, data |-> IF day \in DOMAIN data THEN data[day] ELSE << >>]

\* archive_builder.py:54: reading data_by_day[day] of a defaultdict makes an
\* empty entry for a day that has none
DataAfterBuild(data, day) ==
    [d \in (DOMAIN data) \cup {day} |->
        IF d \in DOMAIN data THEN data[d] ELSE << >>]

\* archive_builder.py:65-67
GetAllDays(data) == SortAsc(DOMAIN data)

\* archive_builder.py:74-85: gzip of the compact JSON text
CompressArchive(archive) == << "gzip", archive >>

MaxAdds == 3

BuilderDays == 0 .. 2

BuilderMeasurements ==
    {Clean(sid, t, 2 * Scale, 0, NoLabel) :
        sid \in Sensors, t \in 0 .. (2 * SlotsPerDay - 1)}
    \cup {Clean(1, 0, 0, IMPUTED_FLAG, "ZERO")}

NoArchive == [day |-> None, data |-> << >>]

VARIABLES bl_data, bl_log, bl_last, bl_read_absent

builderVars == << bl_data, bl_log, bl_last, bl_read_absent >>

\* archive_builder.py:20-22
BuilderInit ==
    /\ bl_data = << >>
    /\ bl_log = << >>
    /\ bl_last = NoArchive
    /\ bl_read_absent = FALSE

BuilderIdle == BuilderInit

\* archive_builder.py:24-40
BuilderAdd ==
    /\ Len(bl_log) < MaxAdds
    /\ \E m \in BuilderMeasurements :
          /\ bl_data' = AddMeasurement(bl_data, m)
          /\ bl_log' = Append(bl_log, m)
    /\ UNCHANGED << bl_last, bl_read_absent >>

\* archive_builder.py:42-63
BuilderBuild ==
    \E day \in BuilderDays :
       /\ bl_last' = BuildArchiveForDay(bl_data, day)
       /\ bl_data' = DataAfterBuild(bl_data, day)
       /\ bl_read_absent' = (bl_read_absent \/ day \notin DOMAIN bl_data)
       /\ UNCHANGED bl_log

\* ------------------------------------------------------ ArchiverService
\* db.py:48-77
DeleteOldRawAlways(table, cutoff, dry_run) ==
    {r \in table : ~(r.ts < cutoff)}

DeleteOldRawMeasurements(table, cutoff, dry_run) ==
    IF dry_run THEN table ELSE {r \in table : ~(r.ts < cutoff)}

\* db.py:177-184
CountMeasurementsToArchive(clean, cutoff) ==
    Cardinality({m \in clean : m.ts < cutoff})

\* db.py:116-140, min_ts
MinDateForArchiving(clean, cutoff) ==
    IF {m \in clean : m.ts < cutoff} = {} THEN None
    ELSE SetMin({m.ts : m \in {x \in clean : x.ts < cutoff}})

\* ORDER BY ts, sensor_id
RECURSIVE OrderByTsSensor(_)
OrderByTsSensor(rows) ==
    IF rows = {} THEN << >>
    ELSE LET first == CHOOSE x \in rows : \A y \in rows :
                         \/ x.ts < y.ts
                         \/ x.ts = y.ts /\ x.sensor_id <= y.sensor_id
         IN << first >> \o OrderByTsSensor(rows \ {first})

FetchCleanSkipsFirst(clean, start, end, batch_size, offset) ==
    LET q == OrderByTsSensor({m \in clean : m.ts >= start /\ m.ts < end})
        last == IF offset + 1 + batch_size < Len(q) THEN offset + 1 + batch_size
                ELSE Len(q)
    IN SubSeq(q, offset + 2, last)

\* db.py:79-114: WHERE ts >= start AND ts < end ... LIMIT batch_size OFFSET offset
FetchCleanMeasurementsToArchive(clean, start, end, batch_size, offset) ==
    LET q == OrderByTsSensor({m \in clean : m.ts >= start /\ m.ts < end})
        last == IF offset + batch_size < Len(q) THEN offset + batch_size
                ELSE Len(q)
    IN SubSeq(q, offset + 1, last)

\* db.py:142-175
DeleteArchivedMeasurements(clean, start, end, dry_run) ==
    IF dry_run THEN clean
    ELSE {m \in clean : ~(m.ts >= start /\ m.ts < end)}

\* uploader.py:45-46: the key names the day
BlobKey(day) == << "archives", day, "json.gz" >>

\* vercel_blob.put with allowOverwrite
BlobPut(blobs, key, data) ==
    [k \in (DOMAIN blobs) \cup {key} |-> IF k = key THEN data ELSE blobs[k]]

RECURSIVE AddAll(_, _)
\* archiver.py:116-118
AddAll(data, measurements) ==
    IF measurements = << >> THEN data
    ELSE AddAll(AddMeasurement(data, Head(measurements)), Tail(measurements))

SeqRange(q) == {q[i] : i \in DOMAIN q}

ArchDays == 0 .. 2

ArchDayShapes == {"none", "one", "two"}

\* the clean_measurements rows of one day
ArchDayRows(day, shape) ==
    LET t0 == day * SlotsPerDay
    IN CASE shape = "none" -> {}
         [] shape = "one" -> {Clean(1, t0, 2 * Scale, 0, NoLabel)}
         [] shape = "two" -> {Clean(1, t0, 2 * Scale, 0, NoLabel),
                              Clean(2, t0 + 1, 0, IMPUTED_FLAG, "ZERO")}

ArchCleanTables ==
    {UNION {ArchDayRows(d, f[d]) : d \in ArchDays} : f \in [ArchDays -> ArchDayShapes]}

ArchRawTables ==
    { {}, {[sensor_id |-> 1, ts |-> 1]},
      {[sensor_id |-> 1, ts |-> 1], [sensor_id |-> 2, ts |-> 6]} }

ArchBlobStores ==
    { << >>, BlobPut(<< >>, BlobKey(0), CompressArchive(NoArchive)) }

\* config.py:14-29; the retention periods and the clock are in slots
ArchConfigs ==
    {[dry_run |-> d, batch_size |-> b,
      raw_retention |-> SlotsPerDay, clean_retention |-> 2 * SlotsPerDay] :
        d \in BOOLEAN, b \in {1, 2}}

ArchClock == {3 * SlotsPerDay, 3 * SlotsPerDay + 1}

NoStats ==
    [raw_deleted |-> 0, clean_archived |-> 0, clean_deleted |-> 0,
     archives_created |-> 0]

VARIABLES ar_cfg, ar_now, ar_raw, ar_clean, ar_blobs, ar_pc, ar_stats,
          ar_min_date, ar_offset, ar_builder, ar_days, ar_fetched, ar_ok,
          ar_runs, ar_deleted

archiverVars ==
    << ar_cfg, ar_now, ar_raw, ar_clean, ar_blobs, ar_pc, ar_stats,
       ar_min_date, ar_offset, ar_builder, ar_days, ar_fetched, ar_ok,
       ar_runs, ar_deleted >>

\* archiver.py:48 and 53
RawCutoff == ar_now - ar_cfg.raw_retention

CleanCutoff == ar_now - ar_cfg.clean_retention

ArchiverLocals ==
    /\ ar_pc = "start"
    /\ ar_stats = NoStats
    /\ ar_min_date = None
    /\ ar_offset = 0
    /\ ar_builder = << >>
    /\ ar_days = << >>
    /\ ar_fetched = {}
    /\ ar_ok = {}
    /\ ar_runs = 1
    /\ ar_deleted = {}

ArchiverInit ==
    /\ ar_cfg \in ArchConfigs
    /\ ar_now \in ArchClock
    /\ ar_raw \in ArchRawTables
    /\ ar_clean \in ArchCleanTables
    /\ ar_blobs \in ArchBlobStores
    /\ ArchiverLocals

ArchiverIdle ==
    /\ ar_cfg = [dry_run |-> TRUE, batch_size |-> 1,
                 raw_retention |-> 0, clean_retention |-> 0]
    /\ ar_now = 0
    /\ ar_raw = {}
    /\ ar_clean = {}
    /\ ar_blobs = << >>
    /\ ArchiverLocals

\* archiver.py:46-49
ArDeleteOldRaw ==
    /\ ar_pc = "start"
    /\ ar_raw' = DeleteOldRawMeasurements(ar_raw, RawCutoff, ar_cfg.dry_run)
    /\ ar_stats' = [ar_stats EXCEPT !.raw_deleted =
                       Cardinality({r \in ar_raw : r.ts < RawCutoff})]
    /\ ar_pc' = "count"
    /\ UNCHANGED << ar_cfg, ar_now, ar_clean, ar_blobs, ar_min_date,
                    ar_offset, ar_builder, ar_days, ar_fetched, ar_ok, ar_runs, ar_deleted >>

\* archiver.py:53-67
ArCount ==
    /\ ar_pc = "count"
    /\ IF CountMeasurementsToArchive(ar_clean, CleanCutoff) = 0
          \/ MinDateForArchiving(ar_clean, CleanCutoff) = None
       THEN /\ ar_pc' = "done"
            /\ UNCHANGED ar_min_date
       ELSE /\ ar_pc' = "fetch"
            /\ ar_min_date' = MinDateForArchiving(ar_clean, CleanCutoff)
    /\ UNCHANGED << ar_cfg, ar_now, ar_raw, ar_clean, ar_blobs, ar_stats,
                    ar_offset, ar_builder, ar_days, ar_fetched, ar_ok, ar_runs, ar_deleted >>

\* archiver.py:103-123: one turn of the fetch loop; the statistics are
\* counted where the code counts its locals
ArFetch ==
    /\ ar_pc = "fetch"
    /\ \E measurements \in
               {FetchCleanMeasurementsToArchive(ar_clean, ar_min_date, CleanCutoff,
                                                ar_cfg.batch_size, ar_offset)} :
       \E builder \in {AddAll(ar_builder, measurements)} :
          /\ ar_builder' = builder
          /\ ar_fetched' = ar_fetched \cup SeqRange(measurements)
          /\ ar_stats' = [ar_stats EXCEPT !.clean_archived = @ + Len(measurements)]
          /\ ar_offset' = ar_offset + Len(measurements)
          /\ IF Len(measurements) < ar_cfg.batch_size
             THEN /\ ar_days' = GetAllDays(builder)
                  /\ ar_pc' = IF GetAllDays(builder) = << >> THEN "delete"
                              ELSE "upload"
             ELSE /\ ar_pc' = "fetch"
                  /\ UNCHANGED ar_days
    /\ UNCHANGED << ar_cfg, ar_now, ar_raw, ar_clean, ar_blobs, ar_min_date,
                    ar_ok, ar_runs, ar_deleted >>

\* archiver.py:126-136 with uploader.py:33-66: one day of the upload loop;
\* the put succeeds or raises
ArUpload ==
    /\ ar_pc = "upload"
    /\ LET day == Head(ar_days)
           compressed == CompressArchive(BuildArchiveForDay(ar_builder, day))
       IN \E put_ok \in (IF ar_cfg.dry_run THEN {TRUE} ELSE BOOLEAN) :
             /\ ar_blobs' = IF ar_cfg.dry_run \/ ~put_ok THEN ar_blobs
                            ELSE BlobPut(ar_blobs, BlobKey(day), compressed)
             /\ ar_ok' = IF put_ok THEN ar_ok \cup {day} ELSE ar_ok
             /\ ar_stats' = IF put_ok
                            THEN [ar_stats EXCEPT !.archives_created = @ + 1]
                            ELSE ar_stats
             /\ ar_builder' = DataAfterBuild(ar_builder, day)
    /\ ar_days' = Tail(ar_days)
    /\ ar_pc' = IF Tail(ar_days) = << >> THEN "delete" ELSE "upload"
    /\ UNCHANGED << ar_cfg, ar_now, ar_raw, ar_clean, ar_min_date, ar_offset,
                    ar_fetched, ar_runs, ar_deleted >>

\* archiver.py:76-81
ArDeleteArchived ==
    /\ ar_pc = "delete"
    /\ IF ~ar_cfg.dry_run /\ ar_stats.clean_archived > 0
       THEN /\ ar_clean' = DeleteArchivedMeasurements(ar_clean, ar_min_date,
                                                      CleanCutoff, ar_cfg.dry_run)
            /\ ar_stats' = [ar_stats EXCEPT !.clean_deleted =
                  Cardinality({m \in ar_clean :
                                  m.ts >= ar_min_date /\ m.ts < CleanCutoff})]
       ELSE UNCHANGED << ar_clean, ar_stats >>
    /\ ar_deleted' = ar_deleted \cup (ar_clean \ ar_clean')
    /\ ar_pc' = "done"
    /\ UNCHANGED << ar_cfg, ar_now, ar_raw, ar_blobs, ar_min_date, ar_offset,
                    ar_builder, ar_days, ar_fetched, ar_ok, ar_runs >>

MaxArchRuns == 2

\* the next scheduled run: a new ArchiverService, a later clock
ArNextRun ==
    /\ ar_pc = "done"
    /\ ar_runs < MaxArchRuns
    /\ ar_runs' = ar_runs + 1
    /\ \E later \in 1 .. SlotsPerDay : ar_now' = ar_now + later
    /\ ar_pc' = "start"
    /\ ar_stats' = NoStats
    /\ ar_min_date' = None
    /\ ar_offset' = 0
    /\ ar_builder' = << >>
    /\ ar_days' = << >>
    /\ ar_fetched' = {}
    /\ ar_ok' = {}
    /\ UNCHANGED << ar_cfg, ar_raw, ar_clean, ar_blobs, ar_deleted >>

\* ------------------------------------------------- aggregate_sensor_data
\* A measurements frame is its set of rows; an interval is in minutes.
Measurement(sid, t, v) == [sensor_id |-> sid, ts |-> t, value_mm |-> v]

RECURSIVE SumValues(_)
SumValues(rows) ==
    IF rows = {} THEN 0
    ELSE LET r == CHOOSE x \in rows : TRUE
         IN r.value_mm + SumValues(rows \ {r})

\* values.mean()
MeanValue(rows) == SumValues(rows) \div Cardinality(rows)

CalculateAvgMmHOfSum(rows, interval) ==
    IF rows = {} \/ interval = 0 THEN 0
    ELSE (SumValues(rows) * MinutesPerHour) \div interval

\* aggregates.py:24-44, interval_hours being interval / 60
CalculateAvgMmH(rows, interval) ==
    IF rows = {} \/ interval = 0 THEN 0
    ELSE (MeanValue(rows) * MinutesPerHour) \div interval

\* aggregates.py:79-85
SensorAggregate(sid, rows, interval) ==
    [sensor_id |-> sid,
     avg_mm_h |-> CalculateAvgMmH(rows, interval),
     measurement_count |-> Cardinality(rows),
     min_value_mm |-> SetMin({r.value_mm : r \in rows}),
     max_value_mm |-> SetMax({r.value_mm : r \in rows})]

\* aggregates.py:47-91: groupby walks the sensor ids in ascending order
AggregateSensorData(measurements_df, interval) ==
    LET ids == SortAsc({r.sensor_id : r \in measurements_df})
    IN [k \in DOMAIN ids |->
           SensorAggregate(ids[k],
                           {r \in measurements_df : r.sensor_id = ids[k]},
                           interval)]

EtlSensors == {1, 2, 3}

EtlShapes == {"none", "one", "two", "three"}

EtlSensorRows(sid, shape) ==
    CASE shape = "none" -> {}
      [] shape = "one" -> {Measurement(sid, 0, 5 * Scale)}
      [] shape = "two" -> {Measurement(sid, 0, 6 * Scale),
                           Measurement(sid, 10, 0)}
      [] shape = "three" -> {Measurement(sid, 0, 4 * Scale),
                             Measurement(sid, 10, Scale),
                             Measurement(sid, 20, 4 * Scale)}

EtlInputs ==
    {UNION {EtlSensorRows(s, f[s]) : s \in EtlSensors} :
        f \in [EtlSensors -> EtlShapes]}

EtlIntervals == {0, 15, 30, 60}

VARIABLES e_df, e_interval, e_pc, e_out

etlVars == << e_df, e_interval, e_pc, e_out >>

EtlInit ==
    /\ e_df \in EtlInputs
    /\ e_interval \in EtlIntervals
    /\ e_pc = "call"
    /\ e_out = << >>

EtlIdle ==
    /\ e_df = {}
    /\ e_interval = 0
    /\ e_pc = "call"
    /\ e_out = << >>

\* aggregates.py:47-91
EtlAggregate ==
    /\ e_pc = "call"
    /\ e_out' = AggregateSensorData(e_df, e_interval)
    /\ e_pc' = "returned"
    /\ UNCHANGED << e_df, e_interval >>

\* ------------------------------------------------------- cleaner backfill
\* db.py:29-46 RAW_RANGE_QUERY: the raw rows of [start, end) that have no
\* clean row of version 1 with the same sensor and the same timestamp
FetchRawRange(rawtable, table, start, end) ==
    {rm \in rawtable :
        /\ rm.ts >= start
        /\ rm.ts < end
        /\ ~\E cm \in table :
              /\ cm.sensor_id = rm.sensor_id
              /\ cm.ts = rm.ts
              /\ cm.version = CleanVersion}

\* Timestamp.floor("1h")
FloorHour(t) == (t \div MinutesPerHour) * MinutesPerHour

\* backfill.py:41
WindowEnd(current, chunk_hours, max_ts) ==
    IF current + chunk_hours * MinutesPerHour < max_ts + MinutesPerHour
    THEN current + chunk_hours * MinutesPerHour
    ELSE max_ts + MinutesPerHour

BackfillHours == 0 .. 3

BackfillHourRows(h, shape) ==
    CASE shape = "none" -> {}
      [] shape = "sharp" -> WithSensor(1, {Raw(h * MinutesPerHour, 2 * Scale, NaN)})
      [] shape = "inside" ->
            WithSensor(1, {Raw(h * MinutesPerHour + 25, 6 * Scale, NaN)})

\* raw_measurements of variable 'precipitacion'
BackfillTables ==
    {UNION {BackfillHourRows(h, f[h]) : h \in BackfillHours} :
        f \in [BackfillHours -> {"none", "sharp", "inside"}]}

\* BACKFILL_CHUNK_HOURS as int() reads it
BackfillChunks == {0, 1, 2}

BackfillConfig == Cfg(0, 150 * Scale, None, 1, FALSE, DefaultMinTrain)

VARIABLES bf_chunk, bf_dry_run, bf_raw, bf_clean, bf_pc, bf_min, bf_max,
          bf_current, bf_windows, bf_processed

backfillVars ==
    << bf_chunk, bf_dry_run, bf_raw, bf_clean, bf_pc, bf_min, bf_max,
       bf_current, bf_windows, bf_processed >>

BackfillLocals ==
    /\ bf_clean = {}
    /\ bf_pc = "start"
    /\ bf_min = None
    /\ bf_max = None
    /\ bf_current = None
    /\ bf_windows = {}
    /\ bf_processed = {}

BackfillInit ==
    /\ bf_chunk \in BackfillChunks
    /\ bf_dry_run \in BOOLEAN
    /\ bf_raw \in BackfillTables
    /\ BackfillLocals

BackfillIdle ==
    /\ bf_chunk = 1
    /\ bf_dry_run = TRUE
    /\ bf_raw = {}
    /\ BackfillLocals

\* backfill.py:26-35, with BOUNDS_QUERY (db.py:48-52)
BfBounds ==
    /\ bf_pc = "start"
    /\ IF bf_raw = {}
       THEN /\ bf_pc' = "done"
            /\ UNCHANGED << bf_min, bf_max, bf_current >>
       ELSE /\ bf_min' = SetMin({r.ts : r \in bf_raw})
            /\ bf_max' = SetMax({r.ts : r \in bf_raw})
            /\ bf_current' = FloorHour(bf_min')
            /\ bf_pc' = "loop"
    /\ UNCHANGED << bf_chunk, bf_dry_run, bf_raw, bf_clean, bf_windows,
                    bf_processed >>

\* backfill.py:49-53: clean_measurements on the rows of one window.  Every
\* window holds a subset of the raw table, and a subset of a table of
\* BackfillTables is one of them; the results are tabulated once (@@ builds
\* the table) so that the enabledness of the loop body is cheap to evaluate.
CleanedWindow ==
    [batch \in BackfillTables |-> CleanMeasurements(batch, BackfillConfig)]
    @@ << >>

\* backfill.py:40-61: one turn of the loop.  bf_windows is the set of the
\* windows fetched, bf_processed the rows that were fetched and cleaned.
BfWindow ==
    /\ bf_pc = "loop"
    /\ bf_current < bf_max
    /\ LET window_end == WindowEnd(bf_current, bf_chunk, bf_max)
           raw_in == FetchRawRange(bf_raw, bf_clean, bf_current, window_end)
           out == CleanedWindow[raw_in]
           rows == IF raw_in = {} \/ out.raised \/ bf_dry_run
                   THEN << >> ELSE out.rows
       IN /\ bf_windows' = bf_windows \cup {<< bf_current, window_end >>}
          /\ bf_processed' = bf_processed \cup raw_in
          /\ bf_clean' = InsertCleanMeasurements(bf_clean, rows)
          /\ bf_current' = window_end
    /\ UNCHANGED << bf_chunk, bf_dry_run, bf_raw, bf_pc, bf_min, bf_max >>

\* backfill.py:40 and 63: the loop condition fails
BfFinish ==
    /\ bf_pc = "loop"
    /\ ~(bf_current < bf_max)
    /\ bf_pc' = "done"
    /\ UNCHANGED << bf_chunk, bf_dry_run, bf_raw, bf_clean, bf_min, bf_max,
                    bf_current, bf_windows, bf_processed >>

\* --------------------------------------------------- the grid ETL run
\* etl/main.py run: ensure_slots, fetch_pending_slots, then one try block per
\* pending slot.  A slot is the timestamp of a grid interval; the id of a
\* grid_runs row is taken equal to its ts (the code only passes ids around).
GridSlots == 1 .. 3

\* a row of grid_runs (db.py:11-14, 37-49)
GridRun(ts, status, json_url, contours_url, message) ==
    [id |-> ts, ts |-> ts, status |-> status, blob_url_json |-> json_url,
     blob_url_contours |-> contours_url, message |-> message]

\* main.py:48-49, 67-70 and 79-83: the URLs of the artifacts of a slot
GridJsonUrl(slot) == << "grids", slot, "grid.json.gz" >>

ContoursUrl(slot) == << "grids", slot, "contours.geojson" >>

\* the first n elements of a sequence (LIMIT)
Limit(q, n) == SubSeq(q, 1, IF Len(q) < n THEN Len(q) ELSE n)

\* the reverse of a sequence (ORDER BY ... DESC)
Reversed(q) == [i \in DOMAIN q |-> q[Len(q) + 1 - i]]

\* db.py:11-25 with ensure_slots (80-90): a pending row for each slot that has
\* clean measurements and no row yet, in slot order, at most 4 x
\* max_slots_per_run of them
EnsureSlots(table, data, max_slots) ==
    LET missing == SortAsc({s \in data : \A r \in table : r.ts # s})
        added == Limit(missing, max_slots * 4)
    IN table \cup {GridRun(added[i], "pending", NoLabel, NoLabel, NoLabel) :
                      i \in DOMAIN added}

\* PENDING_SLOTS_SQL (db.py:27-35) with fetch_pending_slots (92-106): the
\* pending rows, newest first, at most max_slots_per_run of them
FetchPendingSlots(table, max_slots) ==
    Limit(Reversed(SortAsc({r.ts : r \in {x \in table : x.status = "pending"}})),
          max_slots)

\* db.py:108-118 with main.py:43: is the snapshot of the slot non-empty
SnapshotNonEmpty(data, slot) == slot \in data

\* db.py:120-128: the parameters of mark_success that have no default
MarkSuccessRequired ==
    {"run_id", "bbox_json", "npz_url", "json_url", "contours_url"}

\* main.py:57-63: the arguments the dry-run call passes
DryRunCallArgs == {"run_id", "bbox_json", "json_url", "contours_url", "message"}

\* main.py:132-137: the arguments the call after the uploads passes
UploadedCallArgs == {"run_id", "bbox_json", "json_url", "contours_url"}

\* a Python call raises TypeError when a parameter without default is not
\* passed
CallRaises(required, passed) == ~(required \subseteq passed)

\* UPDATE_STATUS_SQL (db.py:37-49) with mark_success (120-141)
MarkSuccess(table, run_id, json_url, contours_url, message) ==
    {IF r.id = run_id
     THEN [r EXCEPT !.status = "done", !.blob_url_json = json_url,
                    !.blob_url_contours = contours_url, !.message = message]
     ELSE r : r \in table}

MarkFailureNoUpdate(table, run_id, message) == table

\* FAIL_STATUS_SQL (db.py:51-57) with mark_failure (143-145)
MarkFailure(table, run_id, message) ==
    {IF r.id = run_id
     THEN [r EXCEPT !.status = "failed", !.message = message]
     ELSE r : r \in table}

\* db.insert_sensor_aggregates (called at main.py:111): the aggregates of the
\* run are recorded
InsertSensorAggregates(aggregates, run_id) == aggregates \cup {run_id}

\* the steps of the try block (main.py:41-137) in the order they run; a slot
\* ends at the first step that raises, or at "ok"
Steps ==
    << "snapshot", "empty", "build", "grid_json", "contours", "aggregates",
       "latest", "mark_success", "ok" >>

StepIndex(step) == CHOOSE i \in DOMAIN Steps : Steps[i] = step

\* was the step completed when the slot ended with this outcome
Passed(outcome, step) == StepIndex(outcome) > StepIndex(step)

\* the calls of the try block that can raise for reasons outside the program:
\* load_snapshot, build, the uploads, the aggregate insert
Faults ==
    {"none", "snapshot", "build", "grid_json", "contours", "aggregates",
     "latest"}

\* main.py:41-137: the step at which the try block of a slot stops
SlotOutcome(config, data, slot, fault) ==
    IF fault = "snapshot" THEN "snapshot"
    ELSE IF ~SnapshotNonEmpty(data, slot) THEN "empty"
    ELSE IF fault = "build" THEN "build"
    ELSE IF config.dry_run
         THEN IF CallRaises(MarkSuccessRequired, DryRunCallArgs)
              THEN "mark_success" ELSE "ok"
    ELSE IF fault \in {"grid_json", "contours", "aggregates", "latest"}
         THEN fault
    ELSE IF CallRaises(MarkSuccessRequired, UploadedCallArgs)
         THEN "mark_success" ELSE "ok"

\* the configurations, the slots with clean measurements and the grid_runs
\* tables a run starts from
GridConfigs ==
    {[dry_run |-> d, max_slots_per_run |-> m] : d \in BOOLEAN, m \in 1 .. 3}

GridRowShapes == {"absent", "pending", "done", "failed"}

GridRowOf(slot, shape) ==
    CASE shape = "absent" -> {}
      [] shape = "pending" -> {GridRun(slot, "pending", NoLabel, NoLabel, NoLabel)}
      [] shape = "done" ->
             {GridRun(slot, "done", GridJsonUrl(slot), ContoursUrl(slot), NoLabel)}
      [] shape = "failed" -> {GridRun(slot, "failed", NoLabel, NoLabel, "build")}

GridTables ==
    {UNION {GridRowOf(s, f[s]) : s \in GridSlots} :
        f \in [GridSlots -> GridRowShapes]}

VARIABLES gr_cfg, gr_data, gr_table, gr_aggregates, gr_blobs, gr_latest,
          gr_pending, gr_i, gr_pc, gr_faults, gr_outcomes, gr_pointed

gridRunVars ==
    << gr_cfg, gr_data, gr_table, gr_aggregates, gr_blobs, gr_latest,
       gr_pending, gr_i, gr_pc, gr_faults, gr_outcomes, gr_pointed >>

\* gr_faults, gr_outcomes: per processed slot, what the environment did and
\* where the try block stopped; gr_pointed: the slots written to latest.json
GridRunLocals ==
    /\ gr_aggregates = {}
    /\ gr_blobs = {}
    /\ gr_latest = None
    /\ gr_pending = << >>
    /\ gr_i = 1
    /\ gr_pc = "start"
    /\ gr_faults = << >>
    /\ gr_outcomes = << >>
    /\ gr_pointed = {}

GridRunInit ==
    /\ gr_cfg \in GridConfigs
    /\ gr_data \in SUBSET GridSlots
    /\ gr_table \in GridTables
    /\ GridRunLocals

GridRunIdle ==
    /\ gr_cfg = [dry_run |-> TRUE, max_slots_per_run |-> 1]
    /\ gr_data = {}
    /\ gr_table = {}
    /\ GridRunLocals

\* main.py:33-37
GrFetchPending ==
    /\ gr_pc = "start"
    /\ gr_table' = EnsureSlots(gr_table, gr_data, gr_cfg.max_slots_per_run)
    /\ gr_pending' = FetchPendingSlots(gr_table', gr_cfg.max_slots_per_run)
    /\ gr_pc' = IF gr_pending' = << >> THEN "done" ELSE "loop"
    /\ UNCHANGED << gr_cfg, gr_data, gr_aggregates, gr_blobs, gr_latest, gr_i,
                    gr_faults, gr_outcomes, gr_pointed >>

\* main.py:39-142: one turn of the loop, the except branch included
GrProcessSlot ==
    /\ gr_pc = "loop"
    /\ gr_i <= Len(gr_pending)
    /\ \E fault \in Faults :
          LET run_id == gr_pending[gr_i]
              slot == run_id
              outcome == SlotOutcome(gr_cfg, gr_data, slot, fault)
              uploads == ~gr_cfg.dry_run
          IN /\ gr_blobs' =
                    gr_blobs
                    \cup (IF uploads /\ Passed(outcome, "grid_json")
                          THEN {GridJsonUrl(slot)} ELSE {})
                    \cup (IF uploads /\ Passed(outcome, "contours")
                          THEN {ContoursUrl(slot)} ELSE {})
             /\ gr_aggregates' =
                    IF uploads /\ Passed(outcome, "aggregates")
                    THEN InsertSensorAggregates(gr_aggregates, run_id)
                    ELSE gr_aggregates
             /\ gr_latest' = IF uploads /\ Passed(outcome, "latest")
                             THEN slot ELSE gr_latest
             /\ gr_pointed' = IF uploads /\ Passed(outcome, "latest")
                              THEN gr_pointed \cup {slot} ELSE gr_pointed
             /\ gr_table' =
                    IF outcome = "ok"
                    THEN IF gr_cfg.dry_run
                         THEN MarkSuccess(gr_table, run_id, "", "", "dry-run")
                         ELSE MarkSuccess(gr_table, run_id, GridJsonUrl(slot),
                                          ContoursUrl(slot), NoLabel)
                    ELSE MarkFailure(gr_table, run_id, outcome)
             /\ gr_faults' = Append(gr_faults, fault)
             /\ gr_outcomes' = Append(gr_outcomes, outcome)
    /\ gr_i' = gr_i + 1
    /\ UNCHANGED << gr_cfg, gr_data, gr_pending, gr_pc >>

\* main.py:39: the pending list is exhausted
GrFinish ==
    /\ gr_pc = "loop"
    /\ gr_i > Len(gr_pending)
    /\ gr_pc' = "done"
    /\ UNCHANGED << gr_cfg, gr_data, gr_table, gr_aggregates, gr_blobs,
                    gr_latest, gr_pending, gr_i, gr_faults, gr_outcomes,
                    gr_pointed >>

\* ------------------------------------------------------ specifications
\* the variables and the idle state of the components added after the cleaner
lateVars == << backfillVars, gridRunVars >>

LateIdle == BackfillIdle /\ GridRunIdle

laterVars ==
    << twiceVars, aggVars, builderVars, archiverVars, etlVars, lateVars >>

LaterIdle ==
    TwiceIdle /\ AggIdle /\ BuilderIdle /\ ArchiverIdle /\ EtlIdle
    /\ LateIdle

vars == << pipeVars, batchVars, storeVars, arimaVars, laterVars >>

\* the cascade of one sensor, stage by stage
Init == PipeInit /\ BatchIdle /\ StoreIdle /\ ArimaIdle /\ LaterIdle

Next ==
    \/ Aggregate /\ UNCHANGED << batchVars, storeVars, arimaVars, laterVars >>
    \/ Qc /\ UNCHANGED << batchVars, storeVars, arimaVars, laterVars >>
    \/ Forecast /\ UNCHANGED << batchVars, storeVars, arimaVars, laterVars >>
    \/ Interp /\ UNCHANGED << batchVars, storeVars, arimaVars, laterVars >>
    \/ HourlyMedian /\ UNCHANGED << batchVars, storeVars, arimaVars, laterVars >>
    \/ Fallback /\ UNCHANGED << batchVars, storeVars, arimaVars, laterVars >>
    \/ Emit /\ UNCHANGED << batchVars, storeVars, arimaVars, laterVars >>

Spec == Init /\ [][Next]_vars

PipeIdle ==
    /\ cfg = Cfg(0, 0, None, 1, FALSE, 1)
    /\ raw = {}
    /\ pc = "idle"
    /\ df = << >>
    /\ clean_series = << >>
    /\ qc_flags = << >>
    /\ imputation_method = << >>
    /\ result = << >>
    /\ hist = NoHist

\* clean_measurements on a batch of several sensors
InitBatch == PipeIdle /\ BatchInit /\ StoreIdle /\ ArimaIdle /\ LaterIdle

NextBatch ==
    \/ BatchEnter /\ UNCHANGED << pipeVars, storeVars, arimaVars, laterVars >>
    \/ BatchIterate /\ UNCHANGED << pipeVars, storeVars, arimaVars, laterVars >>
    \/ BatchReturn /\ UNCHANGED << pipeVars, storeVars, arimaVars, laterVars >>

SpecBatch == InitBatch /\ [][NextBatch]_vars

\* repeated runs of the cleaner over an unchanged raw store
InitRerun == PipeIdle /\ BatchIdle /\ RerunInit /\ ArimaIdle /\ LaterIdle

NextRerun == CleanerRun /\ UNCHANGED << pipeVars, batchVars, arimaVars, laterVars >>

SpecRerun == InitRerun /\ [][NextRerun]_vars

\* calls of insert_clean_measurements
InitInsert == PipeIdle /\ BatchIdle /\ InsertInit /\ ArimaIdle /\ LaterIdle

NextInsert == InsertCall /\ UNCHANGED << pipeVars, batchVars, arimaVars, laterVars >>

SpecInsert == InitInsert /\ [][NextInsert]_vars

\* The cascade of one sensor over a longer window: at most one sample per
\* bucket, a value in range (2.0 or 6.0) or one out of range (200.0).
CascadeBuckets == 4 .. (5 + NumBuckets)

CascadeShapes == {"none", "low", "high", "outlier"}

CascadeBucketInputs(b, shape) ==
    LET t0 == b * BucketMinutes
    IN CASE shape = "none" -> {}
         [] shape = "low" -> {Raw(t0 + 3, 2 * Scale, NaN)}
         [] shape = "high" -> {Raw(t0, 6 * Scale, NaN)}
         [] shape = "outlier" -> {Raw(t0 + 3, 200 * Scale, NaN)}

CascadeInputs ==
    {UNION {CascadeBucketInputs(b, f[b]) : b \in CascadeBuckets} :
        f \in [CascadeBuckets -> CascadeShapes]}

CascadeConfigs ==
    { Cfg(0, 150 * Scale, None, 1, FALSE, 2),
      Cfg(0, 150 * Scale, None, 2, FALSE, 2),
      Cfg(0, 150 * Scale, None, 1, TRUE, 2) }

CascadeInit ==
    /\ cfg \in CascadeConfigs
    /\ raw \in CascadeInputs
    /\ pc = "start"
    /\ df = << >>
    /\ clean_series = << >>
    /\ qc_flags = << >>
    /\ imputation_method = << >>
    /\ result = << >>
    /\ hist = NoHist

InitCascade == CascadeInit /\ BatchIdle /\ StoreIdle /\ ArimaIdle /\ LaterIdle

SpecCascade == InitCascade /\ [][Next]_vars

\* _arima_forecast_fill applied to series with short and long tails
InitArima == PipeIdle /\ BatchIdle /\ StoreIdle /\ ArimaInit(ArimaSeries) /\ LaterIdle

NextArima == ArimaForecastFill /\ UNCHANGED << pipeVars, batchVars, storeVars, laterVars >>

SpecArima == InitArima /\ [][NextArima]_vars

\* the forecast stage and the stages after it, with the outcome of statsmodels
\* kept in the state
InitArimaCascade ==
    PipeIdle /\ BatchIdle /\ StoreIdle /\ ArimaInit(ArimaShortSeries) /\ LaterIdle

NextArimaCascade ==
    \/ ArimaForecastFill /\ UNCHANGED << pipeVars, batchVars, storeVars, laterVars >>
    \/ ArimaLaterStages /\ UNCHANGED << pipeVars, batchVars, storeVars, laterVars >>

SpecArimaCascade == InitArimaCascade /\ [][NextArimaCascade]_vars

\* the cleaner's components all idle
CleanerIdle == PipeIdle /\ BatchIdle /\ StoreIdle /\ ArimaIdle

cleanerVars == << pipeVars, batchVars, storeVars, arimaVars >>

\* the aggregation applied to raw rows and then to its own output
InitAggregate ==
    CleanerIdle /\ TwiceIdle /\ AggInit /\ BuilderIdle /\ ArchiverIdle
    /\ EtlIdle /\ LateIdle

NextAggregate ==
    \/ AggregateOnce /\ UNCHANGED << cleanerVars, twiceVars, builderVars, archiverVars, etlVars,
                   lateVars >>
    \/ AggregateAgain /\ UNCHANGED << cleanerVars, twiceVars, builderVars, archiverVars, etlVars,
                   lateVars >>

SpecAggregate == InitAggregate /\ [][NextAggregate]_vars

\* clean_measurements called again on the same frame
InitTwice ==
    CleanerIdle /\ TwiceInit /\ AggIdle /\ BuilderIdle /\ ArchiverIdle
    /\ EtlIdle /\ LateIdle

NextTwice ==
    CleanAgain
    /\ UNCHANGED << cleanerVars, aggVars, builderVars, archiverVars, etlVars,
                   lateVars >>

SpecTwice == InitTwice /\ [][NextTwice]_vars

\* an ArchiveBuilder fed in any order
InitBuilder ==
    CleanerIdle /\ TwiceIdle /\ AggIdle /\ BuilderInit /\ ArchiverIdle
    /\ EtlIdle /\ LateIdle

NextBuilder ==
    \/ BuilderAdd /\ UNCHANGED << cleanerVars, twiceVars, aggVars, archiverVars, etlVars,
                   lateVars >>
    \/ BuilderBuild /\ UNCHANGED << cleanerVars, twiceVars, aggVars, archiverVars, etlVars,
                   lateVars >>

SpecBuilder == InitBuilder /\ [][NextBuilder]_vars

\* one run of the archiver
InitArchiver ==
    CleanerIdle /\ TwiceIdle /\ AggIdle /\ BuilderIdle /\ ArchiverInit
    /\ EtlIdle /\ LateIdle

otherVars ==
    << cleanerVars, twiceVars, aggVars, builderVars, etlVars, lateVars >>

NextArchiver ==
    \/ ArDeleteOldRaw /\ UNCHANGED otherVars
    \/ ArCount /\ UNCHANGED otherVars
    \/ ArFetch /\ UNCHANGED otherVars
    \/ ArUpload /\ UNCHANGED otherVars
    \/ ArDeleteArchived /\ UNCHANGED otherVars

SpecArchiver == InitArchiver /\ [][NextArchiver]_vars

\* the archiver run again and again on the same database and blob store
NextArchiverRuns ==
    \/ NextArchiver
    \/ ArNextRun /\ UNCHANGED otherVars

SpecArchiverRuns == InitArchiver /\ [][NextArchiverRuns]_vars

\* a run that is started goes on until it returns
SpecArchiverFair == SpecArchiver /\ WF_vars(NextArchiver)

\* one call of aggregate_sensor_data
InitEtl ==
    CleanerIdle /\ TwiceIdle /\ AggIdle /\ BuilderIdle /\ ArchiverIdle
    /\ EtlInit /\ LateIdle

NextEtl ==
    EtlAggregate
    /\ UNCHANGED << cleanerVars, twiceVars, aggVars, builderVars, archiverVars,
                    lateVars >>

SpecEtl == InitEtl /\ [][NextEtl]_vars

\* the components modelled before the backfill, all idle
EarlierIdle ==
    CleanerIdle /\ TwiceIdle /\ AggIdle /\ BuilderIdle /\ ArchiverIdle /\ EtlIdle

earlierVars ==
    << cleanerVars, twiceVars, aggVars, builderVars, archiverVars, etlVars >>

\* one run of the cleaner backfill
InitBackfill == EarlierIdle /\ BackfillInit /\ GridRunIdle

NextBackfill ==
    \/ BfBounds /\ UNCHANGED << earlierVars, gridRunVars >>
    \/ BfWindow /\ UNCHANGED << earlierVars, gridRunVars >>
    \/ BfFinish /\ UNCHANGED << earlierVars, gridRunVars >>

SpecBackfill == InitBackfill /\ [][NextBackfill]_vars

\* a backfill that is started goes on while it can
SpecBackfillFair == SpecBackfill /\ WF_vars(NextBackfill)

\* one run of the grid ETL
InitGridRun == EarlierIdle /\ BackfillIdle /\ GridRunInit

NextGridRun ==
    \/ GrFetchPending /\ UNCHANGED << earlierVars, backfillVars >>
    \/ GrProcessSlot /\ UNCHANGED << earlierVars, backfillVars >>
    \/ GrFinish /\ UNCHANGED << earlierVars, backfillVars >>

SpecGridRun == InitGridRun /\ [][NextGridRun]_vars

\* ------------------------------------------------ claims on the cascade
PastQc == {"qc", "forecast", "interp", "median", "fallback", "done", "raised"}

FillLabels == {"arima_forecast", "time_interp", "hour_median", "zero_fallback"}

\* The label a fill stage writes, by the position the stage leaves
LabelOfStage(p) ==
    CASE p = "forecast" -> "arima_forecast"
      [] p = "interp" -> "time_interp"
      [] p = "median" -> "hour_median"
      [] p = "fallback" -> "zero_fallback"
      [] OTHER -> NoLabel

RowsAt(t) == {k \in DOMAIN result : result[k].ts = t}

OutOfRange(v) == v < cfg.min_value_mm \/ v > cfg.max_value_mm

QualityFails(q) == cfg.min_quality # None /\ q # NaN /\ q < cfg.min_quality

\* C1: every emitted row has min_value_mm <= value_mm <= max_value_mm.
C1_EmittedInRange ==
    \A k \in DOMAIN result :
        /\ result[k].value_mm # NaN
        /\ cfg.min_value_mm <= result[k].value_mm
        /\ result[k].value_mm <= cfg.max_value_mm

\* a zero fallback below the configured minimum was raised to it by the clamp
C1_Witness ==
    /\ pc = "done"
    /\ \E k \in DOMAIN result :
          /\ result[k].imputation_method = "zero_fallback"
          /\ cfg.min_value_mm > ZeroFallback
          /\ result[k].value_mm = cfg.min_value_mm
    /\ \E k \in DOMAIN result : result[k].imputation_method = NoLabel

\* C2: in every emitted row the IMPUTED bit is set iff imputation_method is
\* non-null.
C2_ImputedIffLabel ==
    \A k \in DOMAIN result :
        HasBit(result[k].qc_flags, IMPUTED_FLAG)
            <=> result[k].imputation_method # NoLabel

C2_Witness ==
    /\ pc = "done"
    /\ \E k \in DOMAIN result :
          /\ result[k].imputation_method # NoLabel
          /\ HasBit(result[k].qc_flags, IMPUTED_FLAG)
    /\ \E k \in DOMAIN result :
          /\ result[k].imputation_method = NoLabel
          /\ ~HasBit(result[k].qc_flags, IMPUTED_FLAG)

\* C3: the fill stages run forecast, interpolation, hour median, fallback; a
\* label is written only on a point that is missing when the stage runs, it
\* is the label of that stage, and once a point has a label no later fill
\* stage changes the label or the value the point was filled with.
C3_LabelOnce ==
    [][ \A i \in DOMAIN imputation_method :
          /\ imputation_method[i] # NoLabel =>
                /\ imputation_method'[i] = imputation_method[i]
                /\ pc' \in {"forecast", "interp", "median", "fallback"} =>
                      clean_series'[i] = clean_series[i]
          /\ (imputation_method[i] = NoLabel /\ imputation_method'[i] # NoLabel) =>
                /\ imputation_method'[i] = LabelOfStage(pc')
                /\ IsNaN(clean_series[i])
                /\ NotNaN(clean_series'[i])
      ]_vars

\* a run in which an earlier and a later stage each labeled a point
C3_Witness ==
    /\ pc = "done"
    /\ \E k \in DOMAIN result : result[k].imputation_method = "arima_forecast"
    /\ \E k \in DOMAIN result : result[k].imputation_method = "time_interp"

\* C4: a point whose bucketed value is in range and whose quality passes is
\* never modified: it keeps its value, no label and flags 0 through every
\* stage, and is emitted so.
C4_PassingPointUntouched ==
    \A i \in DOMAIN df :
        (~OutOfRange(df[i].value_mm) /\ ~QualityFails(df[i].quality)) =>
            /\ pc \in PastQc =>
                  /\ clean_series[i] = df[i].value_mm
                  /\ imputation_method[i] = NoLabel
                  /\ qc_flags[i] = 0
            /\ pc = "done" =>
                  /\ Cardinality(RowsAt(df[i].ts)) = 1
                  /\ \A k \in RowsAt(df[i].ts) :
                        /\ result[k].value_mm = df[i].value_mm
                        /\ result[k].imputation_method = NoLabel
                        /\ result[k].qc_flags = 0

\* a passing point emitted unchanged between two points that were filled
C4_Witness ==
    /\ pc = "done"
    /\ Len(result) >= 3
    /\ \E k \in DOMAIN result :
          /\ 1 < k /\ k < Len(result)
          /\ result[k].imputation_method = NoLabel
          /\ result[k - 1].imputation_method # NoLabel
          /\ result[k + 1].imputation_method # NoLabel

\* C5: QC sets OUTLIER exactly on the points with value < min or > max, sets
\* POOR_QUALITY exactly on the points whose quality is known and below a
\* configured min_quality, and nulls exactly the points it flags.
C5_QcFlagsExact ==
    pc \in PastQc =>
        \A i \in DOMAIN df :
            /\ HasBit(qc_flags[i], OUTLIER_FLAG) <=> OutOfRange(df[i].value_mm)
            /\ HasBit(qc_flags[i], POOR_QUALITY_FLAG) <=> QualityFails(df[i].quality)
            /\ pc = "qc" =>
                  (IsNaN(clean_series[i]) <=>
                      (OutOfRange(df[i].value_mm) \/ QualityFails(df[i].quality)))

\* after QC: one point flagged for quality only, one of unknown quality kept
C5_Witness ==
    /\ pc = "qc"
    /\ cfg.min_quality # None
    /\ \E i \in DOMAIN df : qc_flags[i] = POOR_QUALITY_FLAG /\ IsNaN(clean_series[i])
    /\ \E i \in DOMAIN df : df[i].quality = NaN /\ qc_flags[i] = 0
    /\ \E i \in DOMAIN df : HasBit(qc_flags[i], OUTLIER_FLAG)

\* Which stage is the first able to fill point i, from the series that
\* entered each stage.
NearLabeled(series, i, limit) ==
    \E j \in DOMAIN series : NotNaN(series[j]) /\ j - i <= limit /\ i - j <= limit

SameHourLabeled(series, i) ==
    \E j \in DOMAIN series :
        NotNaN(series[j]) /\ HourOf(df[j].ts) = HourOf(df[i].ts)

FirstFillingStage(i) ==
    IF NotNaN(hist.forecast[i]) THEN "arima_forecast"
    ELSE IF NearLabeled(hist.forecast, i, cfg.interpolation_limit) THEN "time_interp"
    ELSE IF SameHourLabeled(hist.interp, i) THEN "hour_median"
    ELSE "zero_fallback"

\* C6: a point that QC nulls as out of range is emitted exactly once, with
\* the OUTLIER bit, the label of the first stage able to fill it and a value
\* inside [min_value_mm, max_value_mm], hence not its original value.
C6_OutlierRefilled ==
    pc = "done" =>
        \A i \in DOMAIN df :
            OutOfRange(df[i].value_mm) =>
                /\ Cardinality(RowsAt(df[i].ts)) = 1
                /\ \A k \in RowsAt(df[i].ts) :
                      /\ HasBit(result[k].qc_flags, OUTLIER_FLAG)
                      /\ result[k].imputation_method \in FillLabels
                      /\ result[k].imputation_method = FirstFillingStage(i)
                      /\ result[k].value_mm <= cfg.max_value_mm
                      /\ result[k].value_mm >= cfg.min_value_mm
                      /\ result[k].value_mm # df[i].value_mm

\* the scenario: 200 with max_value_mm = 150, refilled by interpolation
C6_Witness ==
    /\ pc = "done"
    /\ cfg.max_value_mm = 150 * Scale
    /\ \E i \in DOMAIN df :
          /\ df[i].value_mm = 200 * Scale
          /\ \E k \in RowsAt(df[i].ts) :
                /\ result[k].imputation_method = "time_interp"
                /\ result[k].value_mm <= 150 * Scale
                /\ HasBit(result[k].qc_flags, OUTLIER_FLAG)

\* C10: with the forecast stage disabled no point ever carries the label
\* "arima_forecast".
C10_NoForecastLabelWhenDisabled ==
    ~cfg.arima_enabled =>
        /\ \A i \in DOMAIN imputation_method :
              imputation_method[i] # "arima_forecast"
        /\ \A k \in DOMAIN result :
              result[k].imputation_method # "arima_forecast"

\* disabled, on a series the forecast stage would have fitted and filled
C10_Witness ==
    /\ pc = "done"
    /\ ~cfg.arima_enabled
    /\ ForecastTargets(hist.qc, cfg) # {}
    /\ \E k \in DOMAIN result : result[k].imputation_method # NoLabel

\* ------------------------------------------- claims on store and batch
\* C7: a second run of the cleaner over the unchanged raw store leaves clean
\* storage as the first run left it.
C7_RerunIdempotent ==
    runs >= 2 => clean_measurements = after_first

\* C8: clean storage holds at most one row per (sensor_id, ts, version), and
\* the row of a key carries the value_mm, qc_flags and imputation_method of
\* the last call that wrote the key.
C8_UpsertLastWriteWins ==
    /\ \A r1, r2 \in clean_measurements : Key(r1) = Key(r2) => r1 = r2
    /\ \A r \in clean_measurements :
          /\ Key(r) \in DOMAIN last_write
          /\ Written(r) = last_write[Key(r)]
    /\ \A k \in DOMAIN last_write : \E r \in clean_measurements : Key(r) = k

\* a second call replaced what the first call wrote under a key, beside a
\* key that only the first call wrote
C8_Witness ==
    /\ runs = 2
    /\ \E r \in clean_measurements, r0 \in after_first :
          Key(r) = Key(r0) /\ Written(r) # Written(r0)
    /\ \E r \in clean_measurements : r \in after_first

FrameOf(sid) == AggregateWindows(Group(raw_df, sid))

\* no point of the sensor is missing after QC, so no stage can raise for it
CannotRaise(sid) == ~AnyGap(QcSeries(FrameOf(sid), b_cfg))

\* C9: when processing one sensor raises, the rows of every other sensor of
\* the batch are still returned by clean_measurements.
C9_FailureIsolated ==
    b_pc \in {"returned", "raised"} =>
        \A sid \in Sensors :
            (FrameOf(sid) # << >> /\ CannotRaise(sid)) =>
                \E k \in DOMAIN cleaned_df : cleaned_df[k].sensor_id = sid

\* ------------------------------------ claims on the fill stages and emission
PastForecast == {"forecast", "interp", "median", "fallback", "done", "raised"}

ZeroInRange == cfg.min_value_mm <= ZeroFallback /\ ZeroFallback <= cfg.max_value_mm

\* C11: when every sample of the raw series has a missing value (and 0.0 lies
\* in the configured range), every sample's timestamp is emitted with value
\* 0.0, the label "zero_fallback", the OUTLIER bit clear and the IMPUTED bit
\* set.
C11_AllMissingZeroFilled ==
    (/\ pc = "done"
     /\ raw # {}
     /\ \A r \in raw : IsNaN(r.value_mm)
     /\ ZeroInRange) =>
        \A r \in raw :
            \E k \in DOMAIN result :
                /\ result[k].ts = BucketStart(r.ts)
                /\ result[k].value_mm = ZeroFallback
                /\ result[k].imputation_method = "zero_fallback"
                /\ ~HasBit(result[k].qc_flags, OUTLIER_FLAG)
                /\ HasBit(result[k].qc_flags, IMPUTED_FLAG)

\* C15: when the forecast stage is enabled and fewer points are labeled than
\* arima_min_train, the stage leaves every value and every label as it found
\* them; an exception can then only come from the interpolation (limit below
\* 1), and in a run that returns every point that was missing carries the
\* label of interpolation, hour median or fallback.
C15_BelowMinTrainSkips ==
    (/\ pc \in PastForecast
     /\ cfg.arima_enabled
     /\ TrainCount(hist.qc) < cfg.arima_min_train) =>
        /\ hist.forecast = hist.qc
        /\ \A i \in DOMAIN imputation_method :
              imputation_method[i] # "arima_forecast"
        /\ pc = "forecast" =>
              \A i \in DOMAIN imputation_method : imputation_method[i] = NoLabel
        /\ pc = "raised" =>
              cfg.interpolation_limit < 1 /\ AnyGap(hist.qc)
        /\ pc = "done" =>
              \A i \in DOMAIN hist.qc :
                  IsNaN(hist.qc[i]) =>
                      imputation_method[i] \in
                          {"time_interp", "hour_median", "zero_fallback"}

\* a gap after the only labeled point, too little to train on, was left by
\* the forecast stage and filled by the interpolation
C15_Witness ==
    /\ pc = "done"
    /\ cfg.arima_enabled
    /\ TrainCount(hist.qc) >= 1
    /\ TrainCount(hist.qc) < cfg.arima_min_train
    /\ \E i \in DOMAIN hist.qc :
          /\ i > LastValidPos(hist.qc)
          /\ IsNaN(hist.forecast[i])
          /\ imputation_method[i] = "time_interp"

\* The original C18: every emitted row labeled "zero_fallback" has value_mm
\* exactly 0.0, whatever min_value_mm and max_value_mm are.
C18_ZeroFallbackExactlyZero ==
    \A k \in DOMAIN result :
        result[k].imputation_method = "zero_fallback" =>
            result[k].value_mm = 0

\* C18 (amended): every emitted row labeled "zero_fallback" has the value 0.0
\* clamped to [min_value_mm, max_value_mm]: exactly 0.0 when the range holds
\* 0.0, min_value_mm when it is positive, max_value_mm when it is negative.
C18_ZeroFallbackClamped ==
    \A k \in DOMAIN result :
        result[k].imputation_method = "zero_fallback" =>
            result[k].value_mm =
                (IF cfg.min_value_mm > 0 THEN cfg.min_value_mm
                 ELSE IF cfg.max_value_mm < 0 THEN cfg.max_value_mm
                 ELSE 0)

C18_Witness ==
    /\ pc = "done"
    /\ ZeroInRange
    /\ \E k \in DOMAIN result :
          /\ result[k].imputation_method = "zero_fallback"
          /\ result[k].value_mm = 0

\* C19: a run that returns emits one row per point of the working series, at
\* the same timestamps, and the working series has one point per bucket that
\* holds a sample with a value.
C19_NoPointDropped ==
    pc = "done" =>
        /\ Len(result) = Len(df)
        /\ \A k \in DOMAIN result : result[k].ts = df[k].ts
        /\ Len(df) =
              Cardinality({BucketStart(r.ts) :
                              r \in {x \in raw : NotNaN(x.value_mm)}})

\* a point no stage before the fallback could fill was emitted with the others
C19_Witness ==
    /\ pc = "done"
    /\ Len(df) >= 2
    /\ Len(result) = Len(df)
    /\ \E i \in DOMAIN hist.median : IsNaN(hist.median[i])
    /\ \E k \in DOMAIN result : result[k].imputation_method = NoLabel

\* C20: every raw sample with a non-numeric (missing) value has a row in the
\* output at its bucket, with a non-null imputation_method and the IMPUTED bit
\* set.
C20_NonNumericBecomesGap ==
    pc = "done" =>
        \A r \in raw :
            IsNaN(r.value_mm) =>
                \E k \in DOMAIN result :
                    /\ result[k].ts = BucketStart(r.ts)
                    /\ result[k].imputation_method # NoLabel
                    /\ HasBit(result[k].qc_flags, IMPUTED_FLAG)

\* --------------------------------- claims on interpolation and hour median
PastInterp == {"interp", "median", "fallback", "done"}

PastMedian == {"median", "fallback", "done"}

\* C12: a missing point whose two neighbours in the series are labeled, with
\* values a at time ta and b at time tb, is, when interpolation_limit >= 1,
\* filled with a + (b - a) * (t - ta) / (tb - ta), the midpoint of a and b for
\* equal spacing, labeled "time_interp", and emitted so.
C12_SingleGapInterpolated ==
    pc \in PastInterp =>
        \A i \in DOMAIN hist.qc :
            (/\ 1 < i
             /\ i < Len(hist.qc)
             /\ IsNaN(hist.qc[i])
             /\ NotNaN(hist.qc[i - 1])
             /\ NotNaN(hist.qc[i + 1])
             /\ cfg.interpolation_limit >= 1) =>
                LET a == hist.qc[i - 1]
                    b == hist.qc[i + 1]
                    ta == df[i - 1].ts
                    tb == df[i + 1].ts
                    t == df[i].ts
                IN /\ imputation_method[i] = "time_interp"
                   /\ hist.interp[i] = a + ((b - a) * (t - ta)) \div (tb - ta)
                   /\ (t - ta = tb - t) => 2 * hist.interp[i] = a + b
                   /\ pc = "done" =>
                         \E k \in DOMAIN result :
                             /\ result[k].ts = t
                             /\ result[k].value_mm = hist.interp[i]
                             /\ result[k].imputation_method = "time_interp"

\* the gap between 2.0 and 6.0 at adjacent buckets was emitted as 4.0
C12_Witness ==
    /\ pc = "done"
    /\ \E i \in DOMAIN hist.qc :
          /\ 1 < i
          /\ i < Len(hist.qc)
          /\ hist.qc[i - 1] = 2 * Scale
          /\ IsNaN(hist.qc[i])
          /\ hist.qc[i + 1] = 6 * Scale
          /\ df[i].ts - df[i - 1].ts = BucketMinutes
          /\ df[i + 1].ts - df[i].ts = BucketMinutes
          /\ \E k \in DOMAIN result :
                /\ result[k].ts = df[i].ts
                /\ result[k].value_mm = 4 * Scale
                /\ result[k].imputation_method = "time_interp"

\* the maximal runs of missing points of a series, as pairs << first, last >>
MissingRuns(series) ==
    {<< lo, hi >> \in (DOMAIN series) \X (DOMAIN series) :
        /\ lo <= hi
        /\ \A j \in lo .. hi : IsNaN(series[j])
        /\ (lo - 1 \in DOMAIN series => NotNaN(series[lo - 1]))
        /\ (hi + 1 \in DOMAIN series => NotNaN(series[hi + 1]))}

InterpLabeled(run) ==
    {j \in run[1] .. run[2] : imputation_method[j] = "time_interp"}

\* The original C13: in any maximal run of missing points entering the
\* interpolation, at most interpolation_limit points end up labeled
\* "time_interp".
C13_AtMostLimitPerRun ==
    pc \in PastInterp =>
        \A run \in MissingRuns(hist.forecast) :
            Cardinality(InterpLabeled(run)) <= cfg.interpolation_limit

\* C13 (amended): in any maximal run of missing points entering the
\* interpolation, a point ends up labeled "time_interp" only if it lies within
\* interpolation_limit positions of a labeled point that bounds the run, on
\* either side; so at most 2 * interpolation_limit points of the run are
\* labeled, at most interpolation_limit when the run touches the start or the
\* end of the series, and none when the series has no labeled point.
C13_AtMostLimitPerSide ==
    pc \in PastInterp =>
        \A run \in MissingRuns(hist.forecast) :
            LET lo == run[1]
                hi == run[2]
                left == lo - 1 \in DOMAIN hist.forecast
                right == hi + 1 \in DOMAIN hist.forecast
                sides == (IF left THEN 1 ELSE 0) + (IF right THEN 1 ELSE 0)
            IN /\ \A j \in InterpLabeled(run) :
                     \/ left /\ j - (lo - 1) <= cfg.interpolation_limit
                     \/ right /\ (hi + 1) - j <= cfg.interpolation_limit
               /\ Cardinality(InterpLabeled(run))
                     <= sides * cfg.interpolation_limit

\* a run of three missing points between labeled ones, limit 1: the two outer
\* points were interpolated, the middle one was not
C13_Witness ==
    /\ pc = "done"
    /\ cfg.interpolation_limit = 1
    /\ \E run \in MissingRuns(hist.forecast) :
          /\ run[2] = run[1] + 2
          /\ run[1] - 1 \in DOMAIN hist.forecast
          /\ run[2] + 1 \in DOMAIN hist.forecast
          /\ InterpLabeled(run) = {run[1], run[2]}

LabeledInHour(series, h) ==
    [j \in DOMAIN series |-> NotNaN(series[j]) /\ HourOf(df[j].ts) = h]

\* C17: the hour-median stage fills every point that is missing after the
\* interpolation and whose hour of day has a labeled point (original or
\* filled earlier) with the median of the labeled points of that hour and
\* labels it "hour_median"; it changes no other point, and nothing at all
\* when the series has no labeled point.
C17_HourMedianFills ==
    pc \in PastMedian =>
        /\ \A i \in DOMAIN hist.interp :
              LET h == HourOf(df[i].ts)
                  same == LabeledInHour(hist.interp, h)
              IN IF IsNaN(hist.interp[i]) /\ \E j \in DOMAIN same : same[j]
                 THEN /\ hist.median[i] = Median(SelectIdx(hist.interp, same))
                      /\ imputation_method[i] = "hour_median"
                 ELSE /\ hist.median[i] = hist.interp[i]
                      /\ imputation_method[i] # "hour_median"
        /\ (\A j \in DOMAIN hist.interp : IsNaN(hist.interp[j])) =>
              hist.median = hist.interp

\* a point was filled with the median of two different labeled values of its
\* hour while another hour held labeled points too
C17_Witness ==
    /\ pc = "done"
    /\ \E i \in DOMAIN hist.interp :
          /\ imputation_method[i] = "hour_median"
          /\ \E j, k \in DOMAIN hist.interp :
                /\ HourOf(df[j].ts) = HourOf(df[i].ts)
                /\ HourOf(df[k].ts) = HourOf(df[i].ts)
                /\ NotNaN(hist.interp[j])
                /\ NotNaN(hist.interp[k])
                /\ hist.interp[j] < hist.interp[k]
                /\ 2 * hist.median[i] = hist.interp[j] + hist.interp[k]
          /\ \E j \in DOMAIN hist.interp :
                /\ HourOf(df[j].ts) # HourOf(df[i].ts)
                /\ NotNaN(hist.interp[j])
          /\ \E k \in DOMAIN result :
                /\ result[k].ts = df[i].ts
                /\ result[k].value_mm = hist.median[i]

\* ------------------------------------------ claims on the forecast stage
AfterFill == {"forecast", "done", "raised"}

\* position of the last labeled point of the series entering the stage, 0
\* when there is none
LastLabeled ==
    IF TrainCount(a_series) > 0 THEN LastValidPos(a_series) ELSE 0

Eligible ==
    IF a_cfg.arima_enabled THEN ForecastTargets(a_series, a_cfg) ELSE {}

PredictionFails(i) ==
    LET p == a_oracle.pred[i - LastLabeled]
    IN ~p.ok \/ IsNaN(p.v)

Skipped == {i \in Eligible : IsNaN(a_filled.s[i])}

Aggregated == {"once", "twice"}

\* the raw rows that fall into the 10-minute bucket starting at t
InBucket(t) ==
    {r \in g_df : t <= r.ts /\ r.ts < t + 10}

RECURSIVE QualitySum(_)
QualitySum(rows) ==
    IF rows = {} THEN 0
    ELSE LET r == CHOOSE x \in rows : TRUE
         IN r.quality + QualitySum(rows \ {r})

\* C21: the aggregated frame has exactly one point per 10-minute bucket that
\* holds a raw sample with a value, in ascending order of time and at the
\* start of the bucket; its value is the largest value of the bucket and its
\* quality the mean of the qualities of the bucket's samples; a bucket
\* without a sample with a value has no point.
C21_OnePointPerBucket ==
    g_pc \in Aggregated =>
        /\ {g_once[k].ts : k \in DOMAIN g_once} =
              {10 * (r.ts \div 10) : r \in {x \in g_df : NotNaN(x.value_mm)}}
        /\ \A j, k \in DOMAIN g_once : j < k => g_once[j].ts < g_once[k].ts
        /\ \A k \in DOMAIN g_once :
              LET rows == InBucket(g_once[k].ts)
                  rated == {r \in rows : NotNaN(r.quality)}
              IN /\ NotNaN(g_once[k].value_mm)
                 /\ \E r \in rows : r.value_mm = g_once[k].value_mm
                 /\ \A r \in rows :
                       NotNaN(r.value_mm) => r.value_mm <= g_once[k].value_mm
                 /\ IF rated = {} THEN IsNaN(g_once[k].quality)
                    ELSE g_once[k].quality * Cardinality(rated) = QualitySum(rated)

\* a bucket with two samples gave their larger value and their mean quality,
\* a bucket whose only sample has no value gave no point, and a sample
\* without a value still counted in the mean quality of its bucket
C21_Witness ==
    /\ g_pc = "once"
    /\ \E k \in DOMAIN g_once :
          /\ g_once[k].value_mm = 6 * Scale
          /\ 2 * g_once[k].quality = 3 * Scale
          /\ \E r \in InBucket(g_once[k].ts) : r.value_mm = 2 * Scale
    /\ \E k \in DOMAIN g_once :
          \E r \in InBucket(g_once[k].ts) : IsNaN(r.value_mm)
    /\ \E r \in g_df :
          \A k \in DOMAIN g_once : g_once[k].ts # 10 * (r.ts \div 10)

\* C22: aggregating the aggregated frame again returns the same points, with
\* the same timestamps, values and qualities.
C22_AggregateIdempotent ==
    g_pc = "twice" => g_twice = g_once

\* samples off the bucket boundaries, two of them in one bucket, were
\* aggregated twice
C22_Witness ==
    /\ g_pc = "twice"
    /\ Len(g_twice) >= 2
    /\ \E r \in g_df : r.ts % 10 # 0 /\ NotNaN(r.value_mm)
    /\ \E k \in DOMAIN g_twice :
          Cardinality(InBucket(g_twice[k].ts)) = 2

\* ------------------------------------------------- claims on qc_flags
FlagBits == {OUTLIER_FLAG, IMPUTED_FLAG, POOR_QUALITY_FLAG}

\* C26: no step of the cascade clears a bit of a point's qc_flags, and the
\* row emitted for a point carries every bit the point had before emission,
\* the OUTLIER and POOR_QUALITY bits of QC among them.
C26_FlagsNeverCleared ==
    [][ /\ pc \in PastQc =>
              \A i \in DOMAIN qc_flags :
                  \A bit \in FlagBits :
                      HasBit(qc_flags[i], bit) => HasBit(qc_flags'[i], bit)
        /\ pc' = "done" =>
              \A i \in DOMAIN qc_flags :
                  \E k \in DOMAIN result' :
                      /\ result'[k].ts = df[i].ts
                      /\ \A bit \in FlagBits :
                            HasBit(qc_flags[i], bit) =>
                                HasBit(result'[k].qc_flags, bit) ]_vars

\* a point both out of range and of poor quality was filled and emitted with
\* the three bits set
C26_Witness ==
    /\ pc = "done"
    /\ \E k \in DOMAIN result :
          /\ HasBit(result[k].qc_flags, OUTLIER_FLAG)
          /\ HasBit(result[k].qc_flags, POOR_QUALITY_FLAG)
          /\ HasBit(result[k].qc_flags, IMPUTED_FLAG)
          /\ result[k].imputation_method # NoLabel

\* ------------------------------------- claims on one clean_measurements call
Finished == {"returned", "raised"}

RowsOfSensor(frame, sid) ==
    SelectIdx(frame, [k \in DOMAIN frame |-> frame[k].sensor_id = sid])

\* the outcomes of cleaning the sensor's own rows, whatever else is in the batch
AloneOutcomes(sid) ==
    IF FrameOf(sid) = << >> THEN {[raised |-> FALSE, rows |-> << >>]}
    ELSE {CleanSensorFrame(sid, FrameOf(sid), b_cfg, o) :
             o \in Oracles(QcSeries(FrameOf(sid), b_cfg), b_cfg)}

\* C24: when the call is over, the rows it emitted for a sensor are the rows
\* that cleaning this sensor's raw rows alone gives under the configuration,
\* whatever rows of other sensors are in the batch.
C24_SensorsIndependent ==
    b_pc \in Finished =>
        \A sid \in Sensors :
            (\E out \in AloneOutcomes(sid) : ~out.raised) =>
                \E out \in AloneOutcomes(sid) :
                    /\ ~out.raised
                    /\ RowsOfSensor(cleaned_df, sid) = out.rows

\* C25: in the frame one call returns, the timestamps of each sensor are
\* strictly ascending, and no two rows share (sensor_id, ts, version).
C25_AscendingUniqueTs ==
    b_pc = "returned" =>
        /\ \A j, k \in DOMAIN cleaned_df :
              (j < k /\ cleaned_df[j].sensor_id = cleaned_df[k].sensor_id) =>
                  cleaned_df[j].ts < cleaned_df[k].ts
        /\ \A j, k \in DOMAIN cleaned_df :
              j # k =>
                  << cleaned_df[j].sensor_id, cleaned_df[j].ts,
                     cleaned_df[j].version >>
                  # << cleaned_df[k].sensor_id, cleaned_df[k].ts,
                       cleaned_df[k].version >>

\* two sensors with two rows each were returned, one of the buckets holding
\* two raw samples
C25_Witness ==
    /\ b_pc = "returned"
    /\ \A sid \in Sensors : Len(RowsOfSensor(cleaned_df, sid)) >= 2
    /\ \E r, x \in raw_df :
          /\ r.sensor_id = x.sensor_id
          /\ r.ts < x.ts
          /\ BucketStart(r.ts) = BucketStart(x.ts)

RECURSIVE LogEntries(_, _, _)
LogEntries(log, day, sid) ==
    IF log = << >> THEN << >>
    ELSE LET m == Head(log)
             rest == LogEntries(Tail(log), day, sid)
         IN IF DayKey(m.ts) = day /\ m.sensor_id = sid
            THEN << Entry(m) >> \o rest ELSE rest

ArchivedEntries(archive, sid) ==
    LET at == {i \in DOMAIN archive.data : archive.data[i].sensor = sid}
    IN IF at = {} THEN << >>
       ELSE archive.data[CHOOSE i \in at : TRUE].measurements

\* C29: after add_measurement calls alone, the archive of every day holds,
\* under every sensor, exactly the measurements added for that day and sensor,
\* in the order they were added; get_all_days is the ascending list of the days
\* that received a measurement; no day archive names a sensor twice.
C29_BuilderGroupsByDayAndSensor ==
    ~bl_read_absent =>
       /\ \A day \in BuilderDays : \A sid \in Sensors :
             ArchivedEntries(BuildArchiveForDay(bl_data, day), sid)
                = LogEntries(bl_log, day, sid)
       /\ GetAllDays(bl_data)
             = SortAsc({DayKey(bl_log[k].ts) : k \in DOMAIN bl_log})
       /\ \A day \in BuilderDays :
             LET sensors == BuildArchiveForDay(bl_data, day).data
             IN /\ \A i, j \in DOMAIN sensors :
                      sensors[i].sensor = sensors[j].sensor => i = j
                /\ \A i \in DOMAIN sensors : sensors[i].measurements # << >>

\* three measurements added, two of them for one sensor on one day, the
\* third on another day, and the archive of the first day built
C29_Witness ==
    /\ ~bl_read_absent
    /\ Len(bl_log) = 3
    /\ bl_log[1].sensor_id = bl_log[3].sensor_id
    /\ DayKey(bl_log[1].ts) = DayKey(bl_log[3].ts)
    /\ DayKey(bl_log[1].ts) > DayKey(bl_log[2].ts)
    /\ bl_last.day = DayKey(bl_log[1].ts)
    /\ Len(bl_last.data) = 1
    /\ Len(bl_last.data[1].measurements) = 2
    /\ Len(GetAllDays(bl_data)) = 2

\* C27: a run of the archiver removes a clean measurement only if it was
\* fetched and the archive of its day was uploaded without an error in this
\* run; a day whose upload failed loses no measurement.
C27_DeletesOnlyUploaded ==
    [][\A m \in ar_clean \ ar_clean' :
          m \in ar_fetched /\ DayKey(m.ts) \in ar_ok]_vars

\* C28: with dry_run set, no step of a run changes the raw table, the clean
\* table or the blob store.
C28_DryRunChangesNothing ==
    [][ar_cfg.dry_run => UNCHANGED << ar_raw, ar_clean, ar_blobs >>]_vars

\* a finished dry run that had raw rows to delete, clean rows to archive and
\* two day archives to upload
C28_Witness ==
    /\ ar_cfg.dry_run
    /\ ar_pc = "done"
    /\ ar_stats.raw_deleted > 0
    /\ ar_stats.clean_archived > 1
    /\ ar_stats.archives_created > 1

\* ----------------------------------------------- claims on the ETL aggregates
EtlRows(sid) == {r \in e_df : r.sensor_id = sid}

EtlIds == {r.sensor_id : r \in e_df}

\* one aggregate per sensor id of the input, with its row count and the
\* least and greatest of its values
EtlCountsAndExtremes ==
    /\ \A k \in DOMAIN e_out : e_out[k].sensor_id \in EtlIds
    /\ \A sid \in EtlIds :
          /\ Cardinality({k \in DOMAIN e_out : e_out[k].sensor_id = sid}) = 1
          /\ \A k \in DOMAIN e_out : e_out[k].sensor_id = sid =>
                /\ e_out[k].measurement_count = Cardinality(EtlRows(sid))
                /\ \A r \in EtlRows(sid) :
                      /\ e_out[k].min_value_mm <= r.value_mm
                      /\ r.value_mm <= e_out[k].max_value_mm
                /\ \E r \in EtlRows(sid) : r.value_mm = e_out[k].min_value_mm
                /\ \E r \in EtlRows(sid) : r.value_mm = e_out[k].max_value_mm
                /\ e_out[k].min_value_mm <= e_out[k].max_value_mm
    /\ e_df = {} => e_out = << >>

\* avg_mm_h times the interval in hours is the mean of the sensor's values
EtlAvgIsRate(k) ==
    e_out[k].avg_mm_h * e_interval * Cardinality(EtlRows(e_out[k].sensor_id))
       = SumValues(EtlRows(e_out[k].sensor_id)) * MinutesPerHour

\* C30 as stated: one aggregate per sensor id with its count, minimum and
\* maximum, and avg_mm_h the mean of the sensor's values divided by the
\* interval in hours, whatever the interval; nothing for an empty input.
C30_AvgIsMeanOverInterval ==
    e_pc = "returned" =>
       /\ EtlCountsAndExtremes
       /\ \A k \in DOMAIN e_out : EtlAvgIsRate(k)

\* C30 amended: the same, with avg_mm_h the mean divided by the interval in
\* hours when the interval is not zero and 0.0 when the interval is zero.
C30_AggregatePerSensor ==
    e_pc = "returned" =>
       /\ EtlCountsAndExtremes
       /\ \A k \in DOMAIN e_out :
             IF e_interval = 0 THEN e_out[k].avg_mm_h = 0 ELSE EtlAvgIsRate(k)

\* three sensors aggregated over half an hour, one of them with three rows
C30_Witness ==
    /\ e_pc = "returned"
    /\ e_interval = 30
    /\ Len(e_out) = 3
    /\ \E k \in DOMAIN e_out :
          /\ e_out[k].measurement_count = 3
          /\ e_out[k].avg_mm_h = 6 * Scale
          /\ e_out[k].min_value_mm < e_out[k].max_value_mm

C37_InterpWithinLimitOfLabeled ==
    pc \in PastInterp =>
        /\ \A i \in DOMAIN imputation_method :
              imputation_method[i] = "time_interp" =>
                 \E j \in DOMAIN hist.forecast :
                    /\ NotNaN(hist.forecast[j])
                    /\ j - i <= cfg.interpolation_limit
                    /\ i - j <= cfg.interpolation_limit
        /\ \A run \in MissingRuns(hist.forecast) :
              run[2] - run[1] + 1 > 2 * cfg.interpolation_limit =>
                 \A i \in (run[1] + cfg.interpolation_limit)
                             .. (run[2] - cfg.interpolation_limit) :
                    /\ imputation_method[i] # "time_interp"
                    /\ IsNaN(hist.interp[i])

\* a run of three missing points between labeled ones with limit 1: the
\* middle point left the interpolation stage missing and was filled later
C37_Witness ==
    /\ pc = "done"
    /\ cfg.interpolation_limit = 1
    /\ \E run \in MissingRuns(hist.forecast) :
          /\ run[2] = run[1] + 2
          /\ run[1] > 1
          /\ run[2] < Len(hist.forecast)
          /\ imputation_method[run[1]] = "time_interp"
          /\ imputation_method[run[2]] = "time_interp"
          /\ IsNaN(hist.interp[run[1] + 1])
          /\ imputation_method[run[1] + 1] \notin {NoLabel, "time_interp"}

\* ------------------------------------------ claims on the training data
\* the labeled points that end at the last labeled point of the series with no
\* missing point between them
TrailingRun(series) ==
    LET last == LastValidPos(series)
        first == SetMin({i \in 1 .. last :
                            \A j \in i .. last : NotNaN(series[j])})
    IN SubSeq(series, first, last)

\* C38: when the forecast model is fitted, its training data is the
\* contiguous run of labeled points that ends at the last labeled point;
\* labeled points before a missing point are not in it.
C38_TrainsOnTrailingRun ==
    (a_pc = "forecast" /\ a_train # << >>) =>
        a_train = TrailingRun(a_series)

\* ------------------------------------------- claims on the archiver's fetch loop
RangeRows == {m \in ar_clean : m.ts >= ar_min_date /\ m.ts < CleanCutoff}

\* the number of entries of the builder that stand for the row m
TimesInBuilder(m) ==
    IF DayKey(m.ts) \notin DOMAIN ar_builder THEN 0
    ELSE LET sensors == ar_builder[DayKey(m.ts)]
         IN Cardinality({<< k, j >> \in
                (DOMAIN sensors) \X (1 .. Cardinality(ar_clean)) :
                   /\ sensors[k].sensor = m.sensor_id
                   /\ j \in DOMAIN sensors[k].measurements
                   /\ sensors[k].measurements[j] = Entry(m)})

BuilderSize ==
    LET sizes == [d \in DOMAIN ar_builder |->
                    [k \in DOMAIN ar_builder[d] |->
                        Len(ar_builder[d][k].measurements)]]
        RECURSIVE Total(_)
        Total(days) ==
            IF days = {} THEN 0
            ELSE LET d == CHOOSE x \in days : TRUE
                 IN SumSeq(sizes[d]) + Total(days \ {d})
    IN Total(DOMAIN ar_builder)

\* C39: the fetch loop ends, and when it has ended the builder holds every
\* clean row of the range exactly once and nothing else, and the 'archived'
\* count is the number of rows of the range, for every batch size and row
\* count.
C39_FetchLoopComplete ==
    /\ [](ar_pc \in {"upload", "delete"} =>
             /\ \A m \in RangeRows : TimesInBuilder(m) = 1
             /\ BuilderSize = Cardinality(RangeRows)
             /\ ar_stats.clean_archived = Cardinality(RangeRows))
    /\ (ar_pc = "fetch" ~> ar_pc \in {"upload", "delete"})

\* the loop has ended on a row count that is a multiple of the batch size:
\* one full batch of two rows, then an empty fetch
C39_Witness ==
    /\ ar_pc = "upload"
    /\ ar_cfg.batch_size = 2
    /\ Cardinality(RangeRows) = 2
    /\ ar_offset = 2
    /\ ar_stats.clean_archived = 2
    /\ Len(ar_days) = 2

\* ------------------------------------------- claims on repeated archiver runs
\* gzip.decompress and json.loads of a stored blob
StoredArchive(day) == ar_blobs[BlobKey(day)][2]

InStoredArchive(m) ==
    /\ BlobKey(DayKey(m.ts)) \in DOMAIN ar_blobs
    /\ \E k \in DOMAIN StoredArchive(DayKey(m.ts)).data :
          LET sensor == StoredArchive(DayKey(m.ts)).data[k]
          IN /\ sensor.sensor = m.sensor_id
             /\ \E j \in DOMAIN sensor.measurements :
                   sensor.measurements[j] = Entry(m)

\* C31: after any sequence of archiver runs, every clean measurement a run
\* has deleted from the database is in the archive blob now stored for its
\* day.
C31_DeletedStayArchived ==
    \A m \in ar_deleted : InStoredArchive(m)

\* ------------------------------------------------- claims on the backfill
WindowsHolding(t) == {w \in bf_windows : w[1] <= t /\ t < w[2]}

\* C32: with a chunk of at least one hour, when the backfill has finished
\* every raw measurement between the bounds, the one at max_ts included, lies
\* in exactly one of the windows it fetched, and the windows follow one
\* another without a hole or an overlap.
C32_WindowsCoverBounds ==
    (bf_pc = "done" /\ bf_chunk >= 1) =>
        /\ \A r \in bf_raw : Cardinality(WindowsHolding(r.ts)) = 1
        /\ \A w \in bf_windows :
              \/ w[1] = FloorHour(bf_min)
              \/ \E v \in bf_windows : v[2] = w[1]

\* C33: a backfill that is started finishes, whatever BACKFILL_CHUNK_HOURS and
\* the raw time bounds are.  (A turn of the loop that leaves current where it
\* was changes no variable: the program spins at the loop.)
C33_BackfillTerminates == <>(bf_pc = "done")

\* -------------------------------------------- claims on the grid ETL run
\* the grid_runs row of a run id
RowOf(run_id) == CHOOSE r \in gr_table : r.id = run_id

C35_SuccessfulSlotDone ==
    \A k \in DOMAIN gr_faults :
        (/\ ~gr_cfg.dry_run
         /\ gr_faults[k] = "none"
         /\ SnapshotNonEmpty(gr_data, gr_pending[k]))
        => /\ RowOf(gr_pending[k]).status = "done"
           /\ RowOf(gr_pending[k]).blob_url_json = GridJsonUrl(gr_pending[k])
           /\ RowOf(gr_pending[k]).blob_url_contours = ContoursUrl(gr_pending[k])

\* C36: grids/latest.json describes the newest of the slots whose pointer
\* was written so far: an older slot never replaces a newer one.
C36_LatestIsNewest ==
    gr_pointed # {} => gr_latest = SetMax(gr_pointed)

====
